---- MODULE Spec2Model ----
(***************************************************************************)
(* Verification model of cell-counter: the pattern tracking state machine  *)
(* (Analyzer.py, class Patterns), the per-frame orchestration              *)
(* (Analyzer._process_frame, Analyzer.analyze_time_series) and the         *)
(* multi-view driver with its on-disk results (Analyzer.process_views).    *)
(***************************************************************************)
EXTENDS Integers, Sequences, FiniteSets, TLC

(***************************************************************************)
(* Bounds of the model.                                                    *)
(***************************************************************************)
MaxPatterns == 2      \* a view has 1..MaxPatterns detected patterns
NFrames == 3          \* generator.n_frames of the cells file
NViews == 2           \* generator.n_views of the two files
MaxWanted == 2        \* --wanted is 0..MaxWanted
MaxCount == 3         \* the counter reports 0..MaxCount nuclei per region
NResults == 2         \* distinct results dicts analyze_time_series can return for a view
MaxChannels == 3      \* an ND2 reader reports 0..MaxChannels channels
MaxAxis == 2          \* and 0..MaxAxis frames and views to the constructor
MaxIdPattern == 2     \* pattern indices 0..MaxIdPattern get segment ids
MaxSequences == 1001  \* a pattern's frames split into at most MaxSequences sequences
ExFrames == 10        \* generator.n_frames of the cells file the Extractor reads
MaxSaved == 3         \* a pattern of a result file has at most MaxSaved saved frames
MaxFiles == 2         \* Extractor.extract finds 1..MaxFiles result files
MaxMinFrames == 5     \* min_frames of Extractor.extract is at most MaxMinFrames
MaxContours == 3      \* few contours: 0..MaxContours of them, any center
MaxCenter == 1        \* with center rows and columns 0..MaxCenter
MaxMany == 9          \* many contours: MaxContours+1..MaxMany of them, in one row
MaxArea == 2          \* with areas 0..MaxArea
MaxStrip == 4         \* the iterative refiner gets 1..MaxStrip contours in one row
MaxStripArea == 6     \* with areas 0..MaxStripArea
MaxBoxes == 2         \* or 0..MaxBoxes contours of one area, any bounding box
MaxSide == 2          \* with sides of 1..MaxSide pixels
ImageHeight == 12     \* image_shape[0] of the pattern image
ImageWidth == 13      \* image_shape[1] of the pattern image

(***************************************************************************)
(* Constants of the program.                                               *)
(***************************************************************************)
MAX_GAP == 6          \* Extractor._refine_time_lapse
IdWidth == 3          \* the width of the :03d fields of a segment id
IdBase == 1000        \* the divisor that splits a segment id
HeadTail == 3         \* the default n_frames of Extractor._add_head_tail
AREA_STD_DEVIATIONS == 2  \* CellGenerator: contours further from the mean area are skipped
max_iterations == 10  \* CellGeneratorParameters.max_iterations
edge_tolerance == 5   \* CellGeneratorParameters.edge_tolerance
bimodal_threshold_tenths == 1  \* CellGeneratorParameters.bimodal_threshold = 0.1
min_area_ratio_halves == 1     \* CellGeneratorParameters.min_area_ratio = 0.5
max_area_ratio_halves == 3     \* CellGeneratorParameters.max_area_ratio = 1.5

VARIABLES
    wanted,           \* Analyzer.wanted
    pc,               \* position inside analyze_time_series / _process_frame
    current_view,     \* generator.current_view
    n_patterns,       \* generator.n_patterns
    frame_nuclei,     \* frame index held in generator.frame_nuclei, -1 = None
    patterns,         \* Analyzer.patterns (a Patterns object)
    frame_idx,        \* loop variable of analyze_time_series
    tracked_indices,  \* local of _process_frame
    nuclei_list,      \* local of _process_frame: the pattern each region was cropped for
    counts,           \* local of _process_frame
    k,                \* position of the running for loop of _process_frame
    results,          \* results["time_lapse"] returned by analyze_time_series
    pre,              \* history: the Patterns object when the frame was entered
    outcome,          \* history: how the last _process_frame call returned
    failed,           \* history: patterns whose extraction failed in this view
    clean,            \* history: no extraction or counting failure in this view
    alive,            \* history: patterns with no count 0 or > wanted so far
    expect,           \* history: per pattern, frames counted = wanted while alive
    \* ---- process_views and the output folder ----
    run,              \* position inside process_views, "stopped" = no process
    start_view,       \* argument of process_views
    end_view,         \* argument of process_views
    view_idx,         \* loop variable of process_views
    processed_views,  \* local set of process_views
    view_results,     \* local results of process_views
    handles_open,     \* the two ND2 readers of the generator are open
    folder,           \* the output folder exists
    tracking_file,    \* processed_views.json: absent, partial or the views it lists
    result_file,      \* time_series_<view>.json: absent, partial or the results dumped
    analyzed,         \* history: views analyze_time_series was called for in this run
    completed,        \* history: views whose result file this run wrote completely
    last_stop,        \* history: range and completed views of a run that was killed
    must_skip,        \* history: completed views of the killed run this run resumes
    skip_run,         \* history: the record on disk listed the whole range at the start
    view_failed,      \* history: per view, where its iteration of this run raised
    \* ---- CellGenerator.__init__ ----
    variant,          \* "A": cell_counter CellGenerator, "B": cell_filter CellGenerator
    patterns_sizes,   \* sizes.get of 'c', 't', 'v' of the patterns reader
    cells_sizes,      \* sizes.get of 'c', 't', 'v' of the cells reader
    ctor,             \* position inside CellGenerator.__init__
    patterns_reader,  \* self.patterns_reader: "unset", "open" or "closed"
    cells_reader,     \* self.cells_reader: "unset", "open" or "closed"
    n_views,          \* generator.n_views, -1 before _validate_files sets it
    n_frames,         \* generator.n_frames, -1 before _validate_files sets it
    \* ---- Extractor._refine_time_lapse, the loop that keys the sequences ----
    pattern_idx,      \* the pattern whose sequences are keyed
    seq_i,            \* i of enumerate(sequences), -1 before the first iteration
    new_pattern_idx,  \* the key made for (pattern_idx, seq_i), -1 before
    \* ---- Extractor.extract and _process_time_series_file ----
    ex,               \* position inside extract / _process_time_series_file
    min_frames,       \* argument of extract
    n_files,          \* len(json_files)
    file_k,           \* position of the loop over json_files
    time_lapse,       \* data['time_lapse'] of the file being processed
    sequences,        \* history: per pattern, the local sequences of _refine_time_lapse
    refined,          \* what _refine_time_lapse returned
    padded,           \* what _add_head_tail returned, the dict the loop runs over
    seg_k,            \* position of the loop over time_lapse.items()
    stack_len,        \* len(nuclei_stack) = len(cyto_stack)
    dirs,             \* the export directories of this file and the files in them
    loads,            \* history: the segments of this file a frame was loaded for
    earlier_whole,    \* history: every directory of the files before has all its files
    \* ---- the memory of a CellGenerator and the calls of its methods ----
    gen_patterns,     \* view of the image held in generator.patterns, -1 = None
    bounding_boxes,   \* view in whose image generator.bounding_boxes were detected, -1 = None
    frame_cyto,       \* frame index held in generator.frame_cyto, -1 = None
    frame_views,      \* history: the views frame_nuclei and frame_cyto were loaded for
    call,             \* history: the last method call, whether it raised, what it returned
    \* ---- cli/analyze.py, main ----
    args,             \* what parse_args returned, and whether both input files exist
    main,             \* position inside main
    exit_status,      \* exit status of the process, -1 while none has ended
    \* ---- CellGenerator._refine_contours ----
    contours,         \* the argument: area and center of each contour, in detection order
    contour_data,     \* what the call gave: the contours returned, by position in contours
    \* ---- cell_filter CellGenerator._refine_contours, the iterative variant ----
    current_contours, \* the contours that survive so far, by position in contours
    iteration,        \* the passes of the filtering loop that were performed
    refine_pc         \* position inside _refine_contours

\* the state of one Analyzer while it analyzes a view, but for current_view
analysis == <<wanted, pc, n_patterns, frame_nuclei, patterns,
              frame_idx, tracked_indices, nuclei_list, counts, k, results,
              pre, outcome, failed, clean, alive, expect>>

view == <<analysis, current_view>>

\* the state of the multi-view driver and of the output folder
driver == <<run, start_view, end_view, view_idx, processed_views, view_results,
            handles_open, folder, tracking_file, result_file,
            analyzed, completed, last_stop, must_skip, skip_run, view_failed>>

\* the state of a CellGenerator under construction
construct == <<variant, patterns_sizes, cells_sizes, ctor, patterns_reader, cells_reader,
               n_views, n_frames>>

\* the state of the loop that keys the sequences of a pattern
keying == <<pattern_idx, seq_i, new_pattern_idx>>

\* the state of an Extractor, but for its generator
exporting == <<ex, min_frames, n_files, file_k, time_lapse, sequences, refined, padded,
               seg_k, stack_len, dirs, loads, earlier_whole>>

\* the memory of a CellGenerator that the analysis does not model
memory == <<gen_patterns, bounding_boxes, frame_cyto, frame_views, call>>

\* the state of the command line program around process_views
cli == <<args, main, exit_status>>

\* the state of one call of _refine_contours
stripping == <<current_contours, iteration, refine_pc>>

refining == <<contours, contour_data, stripping>>

\* the state of the programs that run apart from the analysis
offline == <<construct, keying, exporting, memory, cli, refining>>

\* the state of an Analyzer that an Extractor never touches
tracking == <<wanted, pc, frame_nuclei, patterns, frame_idx, tracked_indices,
              nuclei_list, counts, k, results, pre, outcome, failed, clean, alive, expect>>

\* the state of an Analyzer that a call of a CellGenerator method never touches
counting == <<wanted, pc, patterns, frame_idx, tracked_indices, nuclei_list, counts, k,
              results, pre, outcome, failed, clean, alive, expect>>

vars == <<view, driver, offline>>

hist == <<pre, outcome, failed, clean, alive, expect>>

(***************************************************************************)
(* Python list helpers.                                                    *)
(***************************************************************************)
Range(s) == {s[x] : x \in DOMAIN s}

Min(a, b) == IF a < b THEN a ELSE b

Max(a, b) == IF a > b THEN a ELSE b

\* list.remove(x): removes the first occurrence of x
ListRemove(s, x) ==
    LET at == CHOOSE a \in 1..Len(s) :
                  s[a] = x /\ \A b \in 1..(a - 1) : s[b] # x
    IN  SubSeq(s, 1, at - 1) \o SubSeq(s, at + 1, Len(s))

(***************************************************************************)
(* class Patterns                                                          *)
(***************************************************************************)
\* Patterns.__init__
NewPatterns(n) ==
    [tracked      |-> [x \in 1..n |-> x - 1],
     dropped_zero |-> <<>>,
     dropped_many |-> <<>>,
     saved        |-> [p \in 0..(n - 1) |-> <<>>]]

\* a drop_zero that records the drop but forgets tracked.remove(idx)
drop_zero_KeepsTracked(P, idx) ==
    IF idx \in Range(P.tracked)
    THEN [P EXCEPT !.dropped_zero = Append(P.dropped_zero, idx)]
    ELSE P

\* Patterns.drop_zero
drop_zero(P, idx) ==
    IF idx \in Range(P.tracked)
    THEN [P EXCEPT !.tracked = ListRemove(P.tracked, idx),
                   !.dropped_zero = Append(P.dropped_zero, idx)]
    ELSE P

\* Patterns.drop_many
drop_many(P, idx) ==
    IF idx \in Range(P.tracked)
    THEN [P EXCEPT !.tracked = ListRemove(P.tracked, idx),
                   !.dropped_many = Append(P.dropped_many, idx)]
    ELSE P

\* a save_frame that starts the list again with the frame
save_frame_Rewrites(P, idx, f) ==
    [P EXCEPT !.saved[idx] = <<f>>]

\* Patterns.save_frame
save_frame(P, idx, f) ==
    [P EXCEPT !.saved[idx] = Append(P.saved[idx], f)]

\* a get_tracked_indices that returns every pattern index, dropped or not
get_tracked_indices_All(P) ==
    [x \in 1..Cardinality(DOMAIN P.saved) |-> x - 1]

\* Patterns.get_tracked_indices
get_tracked_indices(P) == P.tracked

\* a get_valid_patterns that keeps the patterns with no saved frame
get_valid_patterns_KeepsEmpty(P) == P.saved

\* Patterns.get_valid_patterns
get_valid_patterns(P) ==
    [p \in {q \in DOMAIN P.saved : P.saved[q] # <<>>} |-> P.saved[p]]

(***************************************************************************)
(* Analyzer._process_frame, the body of its loops                          *)
(***************************************************************************)
\* the except branch of the extraction loop
RemoveFailed(P, idx) == [P EXCEPT !.tracked = ListRemove(P.tracked, idx)]

\* the chain without its last branch: a count of zero changes nothing
ApplyCount_ZeroIgnored(P, idx, n, f, w) ==
    IF n = w THEN save_frame(P, idx, f)
    ELSE IF n > w THEN drop_many(P, idx)
    ELSE P

\* the chain with the comparisons of the first two branches off by one
ApplyCount_OffByOne(P, idx, n, f, w) ==
    IF n = w - 1 THEN save_frame(P, idx, f)
    ELSE IF n >= w THEN drop_many(P, idx)
    ELSE IF n = 0 THEN drop_zero(P, idx)
    ELSE P

\* the if / elif chain applied to one (pattern_idx, n_count) pair
ApplyCount(P, idx, n, f, w) ==
    IF n = w THEN save_frame(P, idx, f)
    ELSE IF n > w THEN drop_many(P, idx)
    ELSE IF n = 0 THEN drop_zero(P, idx)
    ELSE P

\* what counter.count_nuclei(nuclei_list) can return: one count per region, in
\* the order of the regions
count_nuclei(regions) == [1..Len(regions) -> 0..MaxCount]

\* zip(tracked_indices, counts) stops at the shorter list
ZipLen(ti, cs) == Min(Len(ti), Len(cs))

(***************************************************************************)
(* Initial state: Analyzer.__init__ and CellGenerator._init_memory.        *)
(***************************************************************************)
InitView ==
    /\ wanted \in 0..MaxWanted
    /\ pc = "idle"
    /\ current_view = 0
    /\ n_patterns = 0
    /\ frame_nuclei = -1
    /\ patterns = NewPatterns(0)
    /\ frame_idx = 0
    /\ tracked_indices = <<>>
    /\ nuclei_list = <<>>
    /\ counts = <<>>
    /\ k = 1
    /\ results = << >>
    /\ pre = NewPatterns(0)
    /\ outcome = "none"
    /\ failed = {}
    /\ clean = TRUE
    /\ alive = {}
    /\ expect = << >>

(***************************************************************************)
(* analyze_time_series                                                     *)
(***************************************************************************)
\* an analyze_time_series that keeps a Patterns object of the right size
AnalyzeStart_ReusesPatterns(n) ==
    /\ pc \in {"idle", "done"}
    /\ current_view' = view_idx
    /\ n_patterns' = n
    /\ patterns' = IF DOMAIN patterns.saved = 0..(n - 1) THEN patterns ELSE NewPatterns(n)
    /\ frame_idx' = 0
    /\ pc' = "load"
    /\ pre' = NewPatterns(n)
    /\ outcome' = "none"
    /\ failed' = {}
    /\ clean' = TRUE
    /\ alive' = 0..(n - 1)
    /\ expect' = [p \in 0..(n - 1) |-> <<>>]
    /\ results' = << >>
    /\ UNCHANGED <<offline, driver, wanted, frame_nuclei, tracked_indices, nuclei_list, counts, k>>

\* analyze_time_series(view_idx): load_view, load_patterns, process_patterns
\* succeed; Patterns(n_patterns). No results are returned yet for this call.
AnalyzeStart(n) ==
    /\ pc \in {"idle", "done"}
    /\ current_view' = view_idx
    /\ n_patterns' = n
    /\ patterns' = NewPatterns(n)
    /\ frame_idx' = 0
    /\ pc' = "load"
    /\ pre' = NewPatterns(n)
    /\ outcome' = "none"
    /\ failed' = {}
    /\ clean' = TRUE
    /\ alive' = 0..(n - 1)
    /\ expect' = [p \in 0..(n - 1) |-> <<>>]
    /\ results' = << >>
    /\ UNCHANGED <<offline, driver, wanted, frame_nuclei, tracked_indices, nuclei_list, counts, k>>

\* load_patterns or process_patterns raises: the view fails before Patterns()
AnalyzeStartFails ==
    /\ pc \in {"idle", "done"}
    /\ current_view' = view_idx
    /\ pc' = "idle"
    /\ UNCHANGED <<offline, driver, wanted, n_patterns, frame_nuclei, patterns, frame_idx,
                   tracked_indices, nuclei_list, counts, k, results, hist>>

\* _process_frame returns (its locals are gone): next iteration of the frame loop,
\* or the results are built
FrameReturn(how) ==
    /\ outcome' = how
    /\ frame_idx' = frame_idx + 1
    /\ pc' = IF frame_idx + 1 < NFrames THEN "load" ELSE "results"
    /\ tracked_indices' = <<>>
    /\ nuclei_list' = <<>>
    /\ counts' = <<>>
    /\ k' = 1

\* load_nuclei(frame_idx); tracked_indices = get_tracked_indices()
LoadNuclei ==
    /\ pc = "load"
    /\ frame_nuclei' = frame_idx
    /\ tracked_indices' = get_tracked_indices(patterns)
    /\ nuclei_list' = <<>>
    /\ counts' = <<>>
    /\ k' = 1
    /\ pc' = "extract"
    /\ pre' = patterns
    /\ UNCHANGED <<offline, driver, wanted, current_view, n_patterns, patterns, frame_idx, results,
                   outcome, failed, clean, alive, expect>>

\* load_nuclei raises: _process_frame and analyze_time_series raise ValueError
LoadNucleiFails ==
    /\ pc = "load"
    /\ pc' = "idle"
    /\ clean' = FALSE
    /\ UNCHANGED <<offline, driver, wanted, current_view, n_patterns, frame_nuclei, patterns, frame_idx,
                   tracked_indices, nuclei_list, counts, k, results,
                   pre, outcome, failed, alive, expect>>

\* one iteration of the extraction loop, extract_nuclei returns the region
ExtractOk ==
    /\ pc = "extract"
    /\ k <= Len(tracked_indices)
    /\ nuclei_list' = Append(nuclei_list, tracked_indices[k])
    /\ k' = k + 1
    /\ UNCHANGED <<offline, driver, wanted, pc, current_view, n_patterns, frame_nuclei, patterns,
                   frame_idx, tracked_indices, counts, results, hist>>

\* one iteration of the extraction loop, extract_nuclei raises
ExtractFails ==
    /\ pc = "extract"
    /\ k <= Len(tracked_indices)
    /\ patterns' = RemoveFailed(patterns, tracked_indices[k])
    /\ k' = k + 1
    /\ failed' = failed \cup {tracked_indices[k]}
    /\ clean' = FALSE
    /\ UNCHANGED <<offline, driver, wanted, pc, current_view, n_patterns, frame_nuclei, frame_idx,
                   tracked_indices, nuclei_list, counts, results,
                   pre, outcome, alive, expect>>

\* if not nuclei_list: return
NoRegions ==
    /\ pc = "extract"
    /\ k > Len(tracked_indices)
    /\ nuclei_list = <<>>
    /\ FrameReturn("no_regions")
    /\ UNCHANGED <<offline, driver, wanted, current_view, n_patterns, frame_nuclei, patterns,
                   results, pre, failed, clean, alive, expect>>

\* counter.count_nuclei(nuclei_list) returns one count per region
CountOk ==
    /\ pc = "extract"
    /\ k > Len(tracked_indices)
    /\ nuclei_list # <<>>
    /\ \E cs \in count_nuclei(nuclei_list) :
          /\ counts' = cs
          /\ alive' = alive \ {nuclei_list[j] : j \in
                          {i \in 1..Len(cs) : cs[i] = 0 \/ cs[i] > wanted}}
          /\ expect' = [p \in DOMAIN expect |->
                          IF /\ p \in alive
                             /\ \E j \in 1..Len(cs) : nuclei_list[j] = p /\ cs[j] = wanted
                          THEN Append(expect[p], frame_idx)
                          ELSE expect[p]]
    /\ k' = 1
    /\ pc' = "update"
    /\ UNCHANGED <<offline, driver, wanted, current_view, n_patterns, frame_nuclei, patterns, frame_idx,
                   tracked_indices, nuclei_list, results, pre, outcome, failed, clean>>

\* a counting failure handled as if every region held no nucleus
CountFails_AsZeroCounts ==
    /\ pc = "extract"
    /\ k > Len(tracked_indices)
    /\ nuclei_list # <<>>
    /\ patterns' = [patterns EXCEPT !.tracked = <<>>,
                                    !.dropped_zero = @ \o patterns.tracked]
    /\ FrameReturn("count_failed")
    /\ clean' = FALSE
    /\ UNCHANGED <<offline, driver, wanted, current_view, n_patterns, frame_nuclei,
                   results, pre, failed, alive, expect>>

\* counter.count_nuclei raises: the frame is skipped
CountFails ==
    /\ pc = "extract"
    /\ k > Len(tracked_indices)
    /\ nuclei_list # <<>>
    /\ FrameReturn("count_failed")
    /\ clean' = FALSE
    /\ UNCHANGED <<offline, driver, wanted, current_view, n_patterns, frame_nuclei, patterns,
                   results, pre, failed, alive, expect>>

\* one iteration of: for pattern_idx, n_count in zip(tracked_indices, counts)
UpdateStep ==
    /\ pc = "update"
    /\ k <= ZipLen(tracked_indices, counts)
    /\ patterns' = ApplyCount(patterns, tracked_indices[k], counts[k], frame_idx, wanted)
    /\ k' = k + 1
    /\ UNCHANGED <<offline, driver, wanted, pc, current_view, n_patterns, frame_nuclei, frame_idx,
                   tracked_indices, nuclei_list, counts, results, hist>>

\* the update loop is exhausted
UpdateDone ==
    /\ pc = "update"
    /\ k > ZipLen(tracked_indices, counts)
    /\ FrameReturn("updated")
    /\ UNCHANGED <<offline, driver, wanted, current_view, n_patterns, frame_nuclei, patterns,
                   results, pre, failed, clean, alive, expect>>

\* results = {"metadata": ..., "time_lapse": patterns.get_valid_patterns()}
BuildResults ==
    /\ pc = "results"
    /\ results' = get_valid_patterns(patterns)
    /\ pc' = "done"
    /\ UNCHANGED <<offline, driver, wanted, current_view, n_patterns, frame_nuclei, patterns, frame_idx,
                   tracked_indices, nuclei_list, counts, k, hist>>

NextView ==
    \/ \E n \in 1..MaxPatterns : AnalyzeStart(n)
    \/ AnalyzeStartFails
    \/ LoadNuclei
    \/ LoadNucleiFails
    \/ ExtractOk
    \/ ExtractFails
    \/ NoRegions
    \/ CountOk
    \/ CountFails
    \/ UpdateStep
    \/ UpdateDone
    \/ BuildResults

(***************************************************************************)
(* Analyzer.process_views, run by one process at a time over an output     *)
(* folder that outlives the process.  Here a call of analyze_time_series   *)
(* is one step, AnalyzeView or AnalyzeViewFails, that returns some results *)
(* dict or raises; its course frame by frame is the actions above.         *)
(***************************************************************************)
Views == 0..(NViews - 1)

NoStop == [range |-> <<>>, done |-> {}]

\* no iteration of the loop of process_views has raised
NoFailure == [v \in Views |-> "none"]

\* a process_views that takes an empty or inverted range
InvalidRange_OrderUnchecked(s, e) == s < 0 \/ e > NViews

\* the if at the head of process_views
InvalidRange(s, e) == s < 0 \/ e > NViews \/ s >= e

\* A file of the output folder: absent, partial (created or truncated by
\* open(.., 'w') and not yet completely written) or whole with its content.
Absent(none) == [st |-> "absent", data |-> none]

Partial(none) == [st |-> "partial", data |-> none]

Whole(content) == [st |-> "whole", data |-> content]

\* a driver that starts every run with an empty set, whatever the record holds
ReadTracking_Ignored(t) == {}

\* tracking_file.exists() / json.load: an unreadable file gives the empty set
ReadTracking(t) == IF t.st = "whole" THEN t.data ELSE {}

\* a loop that analyses every view of the range, recorded or not
SkipsView_Never(v, pv) == FALSE

\* if view_idx in processed_views: continue
SkipsView(v, pv) == v \in pv

InitDriver ==
    /\ run = "stopped"
    /\ start_view = 0
    /\ end_view = 0
    /\ view_idx = 0
    /\ processed_views = {}
    /\ view_results = 0
    /\ handles_open = FALSE
    /\ folder = FALSE
    /\ tracking_file = Absent({})
    /\ result_file = [v \in Views |-> Absent(0)]
    /\ analyzed = {}
    /\ completed = {}
    /\ last_stop = NoStop
    /\ must_skip = {}
    /\ skip_run = FALSE
    /\ view_failed = NoFailure

\* the process ends: its memory and its open handles are gone, the output
\* folder stays
ProcessGone ==
    /\ run' = "stopped"
    /\ start_view' = 0
    /\ end_view' = 0
    /\ view_idx' = 0
    /\ processed_views' = {}
    /\ view_results' = 0
    /\ handles_open' = FALSE
    /\ current_view' = 0
    /\ analyzed' = {}
    /\ completed' = {}
    /\ must_skip' = {}
    /\ skip_run' = FALSE
    /\ view_failed' = NoFailure

\* a process constructs the Analyzer (the generator opens both readers) and
\* calls process_views(s, e)
CallProcessViews(s, e) ==
    /\ run = "stopped"
    /\ run' = "called"
    /\ start_view' = s
    /\ end_view' = e
    /\ handles_open' = TRUE
    /\ analyzed' = {}
    /\ completed' = {}
    /\ must_skip' = IF last_stop.range = <<s, e>> THEN last_stop.done ELSE {}
    /\ skip_run' = FALSE
    /\ view_failed' = NoFailure
    /\ UNCHANGED <<offline, view, view_idx, processed_views, view_results, folder,
                   tracking_file, result_file, last_stop>>

\* raise ValueError("Invalid view range ...")
RaiseInvalidRange ==
    /\ run = "called"
    /\ InvalidRange(start_view, end_view)
    /\ run' = "raised"
    /\ UNCHANGED <<offline, view, start_view, end_view, view_idx, processed_views, view_results,
                   handles_open, folder, tracking_file, result_file,
                   analyzed, completed, last_stop, must_skip, skip_run, view_failed>>

\* mkdir(parents=True, exist_ok=True); load the tracking file; enter the loop
LoadTracking ==
    /\ run = "called"
    /\ ~InvalidRange(start_view, end_view)
    /\ folder' = TRUE
    /\ processed_views' = ReadTracking(tracking_file)
    /\ view_idx' = start_view
    /\ run' = "loop"
    /\ skip_run' = /\ tracking_file.st = "whole"
                   /\ start_view..(end_view - 1) \subseteq tracking_file.data
    /\ UNCHANGED <<offline, view, start_view, end_view, view_results, handles_open,
                   tracking_file, result_file, analyzed, completed, last_stop, must_skip,
                   view_failed>>

\* the view is in processed_views: continue
SkipView ==
    /\ run = "loop"
    /\ view_idx < end_view
    /\ SkipsView(view_idx, processed_views)
    /\ view_idx' = view_idx + 1
    /\ UNCHANGED <<offline, view, run, start_view, end_view, processed_views, view_results,
                   handles_open, folder, tracking_file, result_file,
                   analyzed, completed, last_stop, must_skip, skip_run, view_failed>>

\* results = self.analyze_time_series(view_idx) returns (load_view has made
\* view_idx the current view)
AnalyzeView(r) ==
    /\ run = "loop"
    /\ view_idx < end_view
    /\ ~SkipsView(view_idx, processed_views)
    /\ current_view' = view_idx
    /\ view_results' = r
    /\ analyzed' = analyzed \cup {view_idx}
    /\ run' = "open_result"
    /\ UNCHANGED <<offline, analysis, start_view, end_view, view_idx, processed_views,
                   handles_open, folder, tracking_file, result_file,
                   completed, last_stop, must_skip, skip_run, view_failed>>

\* a handler that marks the failed view as processed before it continues
AnalyzeViewFails_Recorded ==
    /\ run = "loop"
    /\ view_idx < end_view
    /\ ~SkipsView(view_idx, processed_views)
    /\ current_view' = view_idx
    /\ analyzed' = analyzed \cup {view_idx}
    /\ processed_views' = processed_views \cup {view_idx}
    /\ view_idx' = view_idx + 1
    /\ view_failed' = [view_failed EXCEPT ![view_idx] = "analysis"]
    /\ UNCHANGED <<offline, analysis, run, start_view, end_view, view_results,
                   handles_open, folder, tracking_file, result_file,
                   completed, last_stop, must_skip, skip_run>>

\* analyze_time_series raises: logged, continue with the next view
AnalyzeViewFails ==
    /\ run = "loop"
    /\ view_idx < end_view
    /\ ~SkipsView(view_idx, processed_views)
    /\ current_view' = view_idx
    /\ analyzed' = analyzed \cup {view_idx}
    /\ view_idx' = view_idx + 1
    /\ view_failed' = [view_failed EXCEPT ![view_idx] = "analysis"]
    /\ UNCHANGED <<offline, analysis, run, start_view, end_view, processed_views, view_results,
                   handles_open, folder, tracking_file, result_file,
                   completed, last_stop, must_skip, skip_run>>

\* analyze_time_series raises because _find_contours finds no contour in the
\* pattern image of the view and _refine_contours raises on the empty list:
\* logged, continue with the next view
AnalyzeViewNoPattern ==
    /\ run = "loop"
    /\ view_idx < end_view
    /\ ~SkipsView(view_idx, processed_views)
    /\ current_view' = view_idx
    /\ analyzed' = analyzed \cup {view_idx}
    /\ view_idx' = view_idx + 1
    /\ view_failed' = [view_failed EXCEPT ![view_idx] = "detection"]
    /\ UNCHANGED <<offline, analysis, run, start_view, end_view, processed_views, view_results,
                   handles_open, folder, tracking_file, result_file,
                   completed, last_stop, must_skip, skip_run>>

\* open(view_output_path, 'w') creates or truncates the result file
OpenResult ==
    /\ run = "open_result"
    /\ result_file' = [result_file EXCEPT ![view_idx] = Partial(0)]
    /\ run' = "dump_result"
    /\ UNCHANGED <<offline, view, start_view, end_view, view_idx, processed_views, view_results,
                   handles_open, folder, tracking_file,
                   analyzed, completed, last_stop, must_skip, skip_run, view_failed>>

\* json.dump(results, f) and the file is closed
DumpResult ==
    /\ run = "dump_result"
    /\ result_file' = [result_file EXCEPT ![view_idx] = Whole(view_results)]
    /\ completed' = completed \cup {view_idx}
    /\ run' = "add"
    /\ UNCHANGED <<offline, view, start_view, end_view, view_idx, processed_views, view_results,
                   handles_open, folder, tracking_file,
                   analyzed, last_stop, must_skip, skip_run, view_failed>>

\* writing the result raises: logged, continue with the next view
DumpResultFails ==
    /\ run = "dump_result"
    /\ view_idx' = view_idx + 1
    /\ run' = "loop"
    /\ view_failed' = [view_failed EXCEPT ![view_idx] = "result"]
    /\ UNCHANGED <<offline, view, start_view, end_view, processed_views, view_results,
                   handles_open, folder, tracking_file, result_file,
                   analyzed, completed, last_stop, must_skip, skip_run>>

\* an update of the record that forgets processed_views.add(view_idx)
OpenTracking_NoAdd ==
    /\ run = "add"
    /\ tracking_file' = Partial({})
    /\ run' = "dump_tracking"
    /\ UNCHANGED <<offline, view, start_view, end_view, view_idx, processed_views, view_results,
                   handles_open, folder, result_file,
                   analyzed, completed, last_stop, must_skip, skip_run, view_failed>>

\* processed_views.add(view_idx); open(tracking_file, 'w') truncates the record
OpenTracking ==
    /\ run = "add"
    /\ processed_views' = processed_views \cup {view_idx}
    /\ tracking_file' = Partial({})
    /\ run' = "dump_tracking"
    /\ UNCHANGED <<offline, view, start_view, end_view, view_idx, view_results,
                   handles_open, folder, result_file,
                   analyzed, completed, last_stop, must_skip, skip_run, view_failed>>

\* json.dump(sorted(list(processed_views)), f) and the file is closed
DumpTracking ==
    /\ run = "dump_tracking"
    /\ tracking_file' = Whole(processed_views)
    /\ view_idx' = view_idx + 1
    /\ run' = "loop"
    /\ UNCHANGED <<offline, view, start_view, end_view, processed_views, view_results,
                   handles_open, folder, result_file,
                   analyzed, completed, last_stop, must_skip, skip_run, view_failed>>

\* writing the record raises: logged, continue with the next view
DumpTrackingFails ==
    /\ run = "dump_tracking"
    /\ view_idx' = view_idx + 1
    /\ run' = "loop"
    /\ view_failed' = [view_failed EXCEPT ![view_idx] = "record"]
    /\ UNCHANGED <<offline, view, start_view, end_view, processed_views, view_results,
                   handles_open, folder, tracking_file, result_file,
                   analyzed, completed, last_stop, must_skip, skip_run>>

\* the loop is exhausted: self.generator.close_files(), process_views returns
CloseAndReturn ==
    /\ run = "loop"
    /\ view_idx = end_view
    /\ handles_open' = FALSE
    /\ run' = "returned"
    /\ UNCHANGED <<offline, view, start_view, end_view, view_idx, processed_views, view_results,
                   folder, tracking_file, result_file,
                   analyzed, completed, last_stop, must_skip, skip_run, view_failed>>

\* the process ends after process_views returned or raised
Exit ==
    /\ run \in {"returned", "raised"}
    /\ ProcessGone
    /\ last_stop' = NoStop
    /\ UNCHANGED <<offline, analysis, folder, tracking_file, result_file>>

\* the process is terminated from outside while process_views runs
Kill ==
    /\ run \notin {"stopped", "returned", "raised"}
    /\ ProcessGone
    /\ last_stop' = [range |-> <<start_view, end_view>>, done |-> completed]
    /\ UNCHANGED <<offline, analysis, folder, tracking_file, result_file>>

NextDriver ==
    \/ \E s \in (0 - 1)..NViews, e \in 0..(NViews + 1) : CallProcessViews(s, e)
    \/ RaiseInvalidRange
    \/ LoadTracking
    \/ SkipView
    \/ \E r \in 1..NResults : AnalyzeView(r)
    \/ AnalyzeViewFails
    \/ AnalyzeViewNoPattern
    \/ OpenResult
    \/ DumpResult
    \/ DumpResultFails
    \/ OpenTracking
    \/ DumpTracking
    \/ DumpTrackingFails
    \/ CloseAndReturn
    \/ Exit
    \/ Kill

(***************************************************************************)
(* CellGenerator.__init__ in its two variants: cell_counter/core/          *)
(* CellGenerator.py ("A") and cell_filter/core/generate.py ("B").          *)
(***************************************************************************)
Sizes == [c : 0..MaxChannels, t : 0..MaxAxis, v : 0..MaxAxis]

\* a validation that does not compare the view counts of the two files
validate_files_NoViewCheck(var, pm, cm) ==
    IF var = "A"
    THEN IF pm.c # 1 THEN "patterns channels"
         ELSE IF cm.c # 2 THEN "cells channels"
         ELSE IF pm.t # 1 THEN "patterns frames"
         ELSE "ok"
    ELSE IF pm.c # 0 THEN "patterns channels"
         ELSE IF pm.t # 1 THEN "patterns frames"
         ELSE IF cm.c < 2 THEN "cells channels"
         ELSE "ok"

\* _validate_files: the check that raises first, "ok" if none does
validate_files(var, pm, cm) ==
    IF var = "A"
    THEN IF pm.c # 1 THEN "patterns channels"
         ELSE IF cm.c # 2 THEN "cells channels"
         ELSE IF pm.t # 1 THEN "patterns frames"
         ELSE IF pm.v # cm.v THEN "views"
         ELSE "ok"
    ELSE IF pm.c # 0 THEN "patterns channels"
         ELSE IF pm.t # 1 THEN "patterns frames"
         ELSE IF pm.v # cm.v THEN "views"
         ELSE IF cm.c < 2 THEN "cells channels"
         ELSE "ok"

\* close_files on one reader: closed if the attribute exists
close_reader(r) == IF r = "unset" THEN "unset" ELSE "closed"

\* no CellGenerator is under construction
InitOffline ==
    /\ variant = "A"
    /\ patterns_sizes = [c |-> 0, t |-> 0, v |-> 0]
    /\ cells_sizes = [c |-> 0, t |-> 0, v |-> 0]
    /\ ctor = "idle"
    /\ patterns_reader = "unset"
    /\ cells_reader = "unset"
    /\ n_views = 0 - 1
    /\ n_frames = 0 - 1

\* no sequence is being keyed
InitKeying ==
    /\ pattern_idx = 0
    /\ seq_i = 0 - 1
    /\ new_pattern_idx = 0 - 1

\* CellGenerator(patterns_path, cells_path) is called on two files
InitConstructor ==
    /\ variant \in {"A", "B"}
    /\ patterns_sizes \in Sizes
    /\ cells_sizes \in Sizes
    /\ ctor = "new"
    /\ patterns_reader = "unset"
    /\ cells_reader = "unset"
    /\ n_views = 0 - 1
    /\ n_frames = 0 - 1

\* _init_patterns: ND2Reader(patterns_path) opens the file, its sizes are read
InitPatterns ==
    /\ ctor = "new"
    /\ patterns_reader' = "open"
    /\ ctor' = "cells"
    /\ UNCHANGED <<view, driver, memory, cli, refining,
                   exporting, keying, variant, patterns_sizes, cells_sizes, cells_reader,
                   n_views, n_frames>>

\* ND2Reader(patterns_path) raises: close_files, ValueError
InitPatternsFails ==
    /\ ctor = "new"
    /\ patterns_reader' = close_reader(patterns_reader)
    /\ cells_reader' = close_reader(cells_reader)
    /\ ctor' = "failed"
    /\ UNCHANGED <<view, driver, memory, cli, refining,
                   exporting, keying, variant, patterns_sizes, cells_sizes, n_views, n_frames>>

\* _init_cells: ND2Reader(cells_path) opens the file, its sizes are read
InitCells ==
    /\ ctor = "cells"
    /\ cells_reader' = "open"
    /\ ctor' = "validate"
    /\ UNCHANGED <<view, driver, memory, cli, refining,
                   exporting, keying, variant, patterns_sizes, cells_sizes, patterns_reader,
                   n_views, n_frames>>

\* _init_cells raises, in ND2Reader(cells_path) or, in variant B, in the
\* get_frame_2D call that follows the assignment of the reader: close_files,
\* ValueError
InitCellsFails(assigned) ==
    /\ ctor = "cells"
    /\ assigned => variant = "B"
    /\ patterns_reader' = close_reader(patterns_reader)
    /\ cells_reader' = close_reader(IF assigned THEN "open" ELSE cells_reader)
    /\ ctor' = "failed"
    /\ UNCHANGED <<view, driver, memory, cli, refining,
                   exporting, keying, variant, patterns_sizes, cells_sizes, n_views, n_frames>>

\* _validate_files raises: close_files, ValueError
ValidateFails ==
    /\ ctor = "validate"
    /\ validate_files(variant, patterns_sizes, cells_sizes) # "ok"
    /\ patterns_reader' = close_reader(patterns_reader)
    /\ cells_reader' = close_reader(cells_reader)
    /\ ctor' = "failed"
    /\ UNCHANGED <<view, driver, memory, cli, refining,
                   exporting, keying, variant, patterns_sizes, cells_sizes, n_views, n_frames>>

\* _validate_files passes and sets n_views, n_frames; _init_memory
ValidateOk ==
    /\ ctor = "validate"
    /\ validate_files(variant, patterns_sizes, cells_sizes) = "ok"
    /\ n_views' = cells_sizes.v
    /\ n_frames' = cells_sizes.t
    /\ ctor' = "ready"
    /\ UNCHANGED <<view, driver, memory, cli, refining,
                   exporting, keying, variant, patterns_sizes, cells_sizes,
                   patterns_reader, cells_reader>>

NextConstructor ==
    \/ InitPatterns
    \/ InitPatternsFails
    \/ InitCells
    \/ \E assigned \in BOOLEAN : InitCellsFails(assigned)
    \/ ValidateFails
    \/ ValidateOk

(***************************************************************************)
(* Extractor._refine_time_lapse: the composite key of a sequence.          *)
(***************************************************************************)
RECURSIVE Digits(_)
\* str(n) of a decimal integer n >= 0, as its digits
Digits(n) == IF n < 10 THEN <<n>> ELSE Append(Digits(n \div 10), n % 10)

\* the format field :0<w>d: zeros on the left up to w digits, never fewer digits
\* than the number has
ZeroPad(ds, w) ==
    IF Len(ds) >= w THEN ds ELSE [x \in 1..(w - Len(ds)) |-> 0] \o ds

RECURSIVE ToInt(_)
\* int(s) of a string of digits
ToInt(ds) ==
    IF ds = <<>> THEN 0
    ELSE 10 * ToInt(SubSeq(ds, 1, Len(ds) - 1)) + ds[Len(ds)]

\* int(f"{pattern_idx:03d}{i:03d}")
SegmentId(p, i) ==
    ToInt(ZeroPad(Digits(p), IdWidth) \o ZeroPad(Digits(i), IdWidth))

\* original_pattern = pattern_idx // 1000
original_pattern(id) == id \div IdBase

\* sequence_num = pattern_idx % 1000
sequence_num(id) == id % IdBase

\* a pattern of the time lapse reaches: for i, (start, end) in enumerate(sequences)
InitSequences ==
    /\ pattern_idx \in 0..MaxIdPattern
    /\ seq_i = 0 - 1
    /\ new_pattern_idx = 0 - 1

\* one iteration of the loop: the key of sequence i of the pattern is made
KeySequence ==
    /\ seq_i + 1 < MaxSequences
    /\ seq_i' = seq_i + 1
    /\ new_pattern_idx' = SegmentId(pattern_idx, seq_i + 1)
    /\ UNCHANGED <<view, driver, memory, cli, refining,
                   exporting, construct, pattern_idx>>

\* the loop is left and the next pattern of the time lapse is taken
NextPattern ==
    /\ seq_i >= 0
    /\ pattern_idx < MaxIdPattern
    /\ pattern_idx' = pattern_idx + 1
    /\ seq_i' = 0 - 1
    /\ new_pattern_idx' = 0 - 1
    /\ UNCHANGED <<view, driver, memory, cli, refining,
                   exporting, construct>>

NextKeying ==
    \/ KeySequence
    \/ NextPattern

(***************************************************************************)
(* Extractor._refine_time_lapse and Extractor._add_head_tail.  A dict is   *)
(* the sequence of its items <<key, value>> in insertion order.            *)
(***************************************************************************)
\* d[key] = val: a new key is appended, an old key keeps its place
DictSet(d, key, val) ==
    IF \E x \in 1..Len(d) : d[x][1] = key
    THEN [x \in 1..Len(d) |-> IF d[x][1] = key THEN <<key, val>> ELSE d[x]]
    ELSE Append(d, <<key, val>>)

DictKeys(d) == {d[x][1] : x \in 1..Len(d)}

DictGet(d, key) == (CHOOSE x \in Range(d) : x[1] = key)[2]

RECURSIVE InsertSorted(_, _)
InsertSorted(x, sorted) ==
    IF sorted = <<>> \/ x <= sorted[1] THEN <<x>> \o sorted
    ELSE <<sorted[1]>> \o InsertSorted(x, Tail(sorted))

RECURSIVE SortFrames(_)
\* frames.sort()
SortFrames(frames) ==
    IF frames = <<>> THEN <<>>
    ELSE InsertSorted(frames[1], SortFrames(Tail(frames)))

\* a split that already starts a new sequence at a gap of MAX_GAP
StartsNewSequence_AtMaxGap(gap) == gap >= MAX_GAP

\* if gap > MAX_GAP
StartsNewSequence(gap) == gap > MAX_GAP

RECURSIVE SplitLoop(_, _, _, _, _)
\* for i in range(1, len(frames)), then the last sequence is appended
SplitLoop(frames, i, sequence_start, current_end, seqs) ==
    IF i > Len(frames) THEN Append(seqs, <<sequence_start, current_end>>)
    ELSE IF StartsNewSequence(frames[i] - frames[i - 1])
         THEN SplitLoop(frames, i + 1, frames[i], frames[i],
                        Append(seqs, <<sequence_start, current_end>>))
         ELSE SplitLoop(frames, i + 1, sequence_start, frames[i], seqs)

\* the local sequences built for the sorted frames of one pattern
find_sequences(frames) == SplitLoop(frames, 2, frames[1], frames[1], <<>>)

RECURSIVE KeySequences(_, _, _, _)
\* for i, (start, end) in enumerate(sequences): refined_time_lapse[new_pattern_idx] = ..
KeySequences(d, p, seqs, i) ==
    IF i >= Len(seqs) THEN d
    ELSE KeySequences(DictSet(d, SegmentId(p, i), seqs[i + 1]), p, seqs, i + 1)

RECURSIVE RefineFrom(_, _)
\* for pattern_idx, frames in time_lapse.items()
RefineFrom(items, d) ==
    IF items = <<>> THEN d
    ELSE LET p == items[1][1]
             frames == items[1][2]
         IN  IF frames = <<>> THEN RefineFrom(Tail(items), d)
             ELSE RefineFrom(Tail(items),
                             KeySequences(d, p, find_sequences(SortFrames(frames)), 0))

\* Extractor._refine_time_lapse
refine_time_lapse(tl) == RefineFrom(tl, <<>>)

RECURSIVE SequencesFrom(_, _)
SequencesFrom(items, d) ==
    IF items = <<>> THEN d
    ELSE LET p == items[1][1]
             frames == items[1][2]
         IN  IF frames = <<>> THEN SequencesFrom(Tail(items), d)
             ELSE SequencesFrom(Tail(items),
                                DictSet(d, p, find_sequences(SortFrames(frames))))

\* the sequences of every pattern with saved frames
SequencesOf(tl) == SequencesFrom(tl, <<>>)

\* a padding whose head is one frame longer than n
head_tail_LongHead(seg, n, total) == <<Max(0, seg[1] - n - 1), Min(total - 1, seg[2] + n)>>

\* a padding that does not clamp the new start
head_tail_Unclamped(seg, n, total) == <<seg[1] - n, Min(total - 1, seg[2] + n)>>

\* new_start = max(0, start - n_frames); new_end = min(total_frames - 1, end + n_frames)
head_tail(seg, n, total) == <<Max(0, seg[1] - n), Min(total - 1, seg[2] + n)>>

\* Extractor._add_head_tail
add_head_tail(d, n, total) ==
    [x \in 1..Len(d) |-> <<d[x][1], head_tail(d[x][2], n, total)>>]

(***************************************************************************)
(* Extractor.extract and Extractor._process_time_series_file, on a         *)
(* generator that was constructed on a cells file of ExFrames frames.      *)
(***************************************************************************)
RECURSIVE SetToSeq(_)
\* the elements of a set of frames in ascending order
SetToSeq(S) ==
    IF S = {} THEN <<>>
    ELSE LET least == CHOOSE x \in S : \A y \in S : x <= y
         IN  <<least>> \o SetToSeq(S \ {least})

\* the saved frames of a pattern as the Analyzer writes them: ascending, distinct
FrameLists ==
    {SetToSeq(S) : S \in {T \in SUBSET (0..(ExFrames - 1)) :
                              1 <= Cardinality(T) /\ Cardinality(T) <= MaxSaved}}

\* data['time_lapse'] of a result file: no pattern, or one pattern with its frames
TimeLapses ==
    {<<>>} \cup {<< <<p, frames>> >> : p \in 0..(MaxPatterns - 1), frames \in FrameLists}

\* a directory that was made and holds no file
NoArtefacts == [frames |-> 0, pattern |-> 0, sidecar |-> FALSE, box |-> 0 - 1]

\* the directory holds frames.tif, pattern.tif and frames.json
AllArtefacts(a) == a.frames > 0 /\ a.pattern > 0 /\ a.sidecar

\* _extract_region raises ValueError for the index it is given
ExtractRaises(idx, n) == idx >= n \/ idx < 0

\* rgb_stack[..., 0] = nuclei_stack: a stack of m regions is assigned to n rows
Broadcasts(m, n) == m = n \/ m = 1

\* a filter that also discards the segments of exactly min_frames frames
TooShort_Inclusive(n, least) == n <= least

\* if n_frames < min_frames: continue
TooShort(n, least) == n < least

\* the item the loop over time_lapse.items() is at
SegmentKey == padded[seg_k][1]

start_frame == padded[seg_k][2][1]

end_frame == padded[seg_k][2][2]

\* n_frames = end_frame - start_frame + 1
SegmentFrames == end_frame - start_frame + 1

\* the min_frames extract is called with: a padded segment spans HeadTail + 1
\* frames or more, so the lower value discards nothing and the higher one discards
\* the shortest segments
MinFramesArgs == (MaxMinFrames - 1)..MaxMinFrames

\* no Extractor runs
InitExporting ==
    /\ ex = "none"
    /\ min_frames = 0
    /\ n_files = 0
    /\ file_k = 0
    /\ time_lapse = <<>>
    /\ sequences = <<>>
    /\ refined = <<>>
    /\ padded = <<>>
    /\ seg_k = 1
    /\ stack_len = 0
    /\ dirs = <<>>
    /\ loads = {}
    /\ earlier_whole = TRUE

\* Extractor.__init__ has constructed the generator: both readers are open
InitExtractor ==
    /\ variant = "A"
    /\ patterns_sizes = [c |-> 1, t |-> 1, v |-> NViews]
    /\ cells_sizes = [c |-> 2, t |-> ExFrames, v |-> NViews]
    /\ ctor = "ready"
    /\ patterns_reader = "open"
    /\ cells_reader = "open"
    /\ n_views = NViews
    /\ n_frames = ExFrames
    /\ ex = "idle"
    /\ min_frames = 0
    /\ n_files = 0
    /\ file_k = 0
    /\ time_lapse = <<>>
    /\ sequences = <<>>
    /\ refined = <<>>
    /\ padded = <<>>
    /\ seg_k = 1
    /\ stack_len = 0
    /\ dirs = <<>>
    /\ loads = {}
    /\ earlier_whole = TRUE

\* extract(time_series_dir, min_frames): the output folder is made and nf result
\* files are found
ExtractCall(least, nf) ==
    /\ ex = "idle"
    /\ nf > 0
    /\ min_frames' = least
    /\ n_files' = nf
    /\ file_k' = 0
    /\ ex' = "file"
    /\ UNCHANGED <<view, driver, memory, cli, refining,
                   construct, keying, time_lapse, sequences, refined, padded,
                   seg_k, stack_len, dirs, loads, earlier_whole>>

\* if not json_files: raise ValueError, wrapped by the except of extract
ExtractNoFiles(least) ==
    /\ ex = "idle"
    /\ min_frames' = least
    /\ ex' = "raised"
    /\ UNCHANGED <<view, driver, memory, cli, refining,
                   construct, keying, n_files, file_k, time_lapse, sequences,
                   refined, padded, seg_k, stack_len, dirs, loads, earlier_whole>>

\* _process_time_series_file up to its loop: the file is read, its time lapse tl is
\* refined and padded, the view and its n patterns are loaded
ReadFile ==
    /\ ex = "file"
    /\ file_k < n_files
    /\ \E tl \in TimeLapses, n \in 1..MaxPatterns :
          /\ \A x \in 1..Len(tl) : tl[x][1] < n
          /\ time_lapse' = tl
          /\ sequences' = SequencesOf(tl)
          /\ refined' = refine_time_lapse(tl)
          /\ padded' = add_head_tail(refine_time_lapse(tl), HeadTail, n_frames)
          /\ n_patterns' = n
    /\ current_view' = file_k
    /\ seg_k' = 1
    /\ stack_len' = 0
    /\ dirs' = <<>>
    /\ loads' = {}
    /\ ex' = "segment"
    /\ UNCHANGED <<tracking, driver, memory, cli, refining,
                   construct, keying, min_frames, n_files, file_k,
                   earlier_whole>>

\* json.load, load_view, load_patterns or process_patterns raises: ValueError,
\* which extract wraps and raises; the locals of the call are gone
ReadFileFails ==
    /\ ex = "file"
    /\ file_k < n_files
    /\ ex' = "raised"
    /\ time_lapse' = <<>>
    /\ sequences' = <<>>
    /\ refined' = <<>>
    /\ padded' = <<>>
    /\ seg_k' = 1
    /\ stack_len' = 0
    /\ loads' = {}
    /\ UNCHANGED <<view, driver, memory, cli, refining,
                   construct, keying, min_frames, n_files, file_k, dirs,
                   earlier_whole>>

\* the segment is shorter than min_frames: continue
SkipShort ==
    /\ ex = "segment"
    /\ seg_k <= Len(padded)
    /\ TooShort(SegmentFrames, min_frames)
    /\ seg_k' = seg_k + 1
    /\ UNCHANGED <<view, driver, memory, cli, refining,
                   construct, keying, ex, min_frames, n_files, file_k,
                   time_lapse, sequences, refined, padded, stack_len, dirs, loads,
                   earlier_whole>>

\* time_lapse_dir.mkdir(parents=True, exist_ok=True); the stacks are empty
MakeDir ==
    /\ ex = "segment"
    /\ seg_k <= Len(padded)
    /\ ~TooShort(SegmentFrames, min_frames)
    /\ dirs' = DictSet(dirs, SegmentKey, NoArtefacts)
    /\ stack_len' = 0
    /\ ex' = "frames"
    /\ UNCHANGED <<view, driver, memory, cli, refining,
                   construct, keying, min_frames, n_files, file_k,
                   time_lapse, sequences, refined, padded, seg_k, loads, earlier_whole>>

\* for frame_idx in range(start_frame, end_frame + 1): m of the frames are loaded
\* and extracted without an exception; extract_nuclei is given the segment key
ExtractFrames(m) ==
    /\ ex = "frames"
    /\ m <= SegmentFrames
    /\ ExtractRaises(SegmentKey, n_patterns) => m = 0
    /\ stack_len' = m
    /\ loads' = loads \cup {SegmentKey}
    /\ ex' = "stack"
    /\ UNCHANGED <<view, driver, memory, cli, refining,
                   construct, keying, min_frames, n_files, file_k,
                   time_lapse, sequences, refined, padded, seg_k, dirs, earlier_whole>>

\* if not nuclei_stack or not cyto_stack: continue
StackEmpty ==
    /\ ex = "stack"
    /\ stack_len = 0
    /\ seg_k' = seg_k + 1
    /\ ex' = "segment"
    /\ UNCHANGED <<view, driver, memory, cli, refining,
                   construct, keying, min_frames, n_files, file_k,
                   time_lapse, sequences, refined, padded, stack_len, dirs, loads,
                   earlier_whole>>

\* the stack does not fit the n_frames rows of rgb_stack: the assignment raises
\* ValueError, which _process_time_series_file and extract wrap and raise
StackMismatch ==
    /\ ex = "stack"
    /\ stack_len > 0
    /\ ~Broadcasts(stack_len, SegmentFrames)
    /\ ex' = "broadcast_error"
    /\ time_lapse' = <<>>
    /\ sequences' = <<>>
    /\ refined' = <<>>
    /\ padded' = <<>>
    /\ seg_k' = 1
    /\ stack_len' = 0
    /\ loads' = {}
    /\ UNCHANGED <<view, driver, memory, cli, refining,
                   construct, keying, min_frames, n_files, file_k, dirs,
                   earlier_whole>>

\* rgb_stack of n_frames rows is filled with the regions that
\* extract_nuclei(pattern_idx) and extract_cyto(pattern_idx) returned, cropped to
\* bounding_boxes[pattern_idx], and saved as frames.tif
SaveFrames ==
    /\ ex = "stack"
    /\ stack_len > 0
    /\ Broadcasts(stack_len, SegmentFrames)
    /\ dirs' = DictSet(dirs, SegmentKey,
                       [DictGet(dirs, SegmentKey) EXCEPT !.frames = SegmentFrames,
                                                         !.box = SegmentKey])
    /\ ex' = "pattern"
    /\ UNCHANGED <<view, driver, memory, cli, refining,
                   construct, keying, min_frames, n_files, file_k,
                   time_lapse, sequences, refined, padded, seg_k, stack_len, loads,
                   earlier_whole>>

\* imsave of frames.tif raises: ValueError, which extract wraps and raises
SaveFramesFails ==
    /\ ex = "stack"
    /\ stack_len > 0
    /\ Broadcasts(stack_len, SegmentFrames)
    /\ ex' = "raised"
    /\ time_lapse' = <<>>
    /\ sequences' = <<>>
    /\ refined' = <<>>
    /\ padded' = <<>>
    /\ seg_k' = 1
    /\ stack_len' = 0
    /\ loads' = {}
    /\ UNCHANGED <<view, driver, memory, cli, refining,
                   construct, keying, min_frames, n_files, file_k, dirs,
                   earlier_whole>>

\* extract_pattern; pattern.tif of n_frames rows and frames.json are saved
SavePattern ==
    /\ ex = "pattern"
    /\ dirs' = DictSet(dirs, SegmentKey,
                       [DictGet(dirs, SegmentKey) EXCEPT !.pattern = SegmentFrames,
                                                         !.sidecar = TRUE])
    /\ seg_k' = seg_k + 1
    /\ ex' = "segment"
    /\ UNCHANGED <<view, driver, memory, cli, refining,
                   construct, keying, min_frames, n_files, file_k,
                   time_lapse, sequences, refined, padded, stack_len, loads, earlier_whole>>

\* the try around the pattern raises, before pattern.tif is saved or after it:
\* logged, continue
SavePatternFails(saved) ==
    /\ ex = "pattern"
    /\ dirs' = DictSet(dirs, SegmentKey,
                       [DictGet(dirs, SegmentKey) EXCEPT
                           !.pattern = IF saved THEN SegmentFrames ELSE 0])
    /\ seg_k' = seg_k + 1
    /\ ex' = "segment"
    /\ UNCHANGED <<view, driver, memory, cli, refining,
                   construct, keying, min_frames, n_files, file_k,
                   time_lapse, sequences, refined, padded, stack_len, loads, earlier_whole>>

\* the loop over the segments is exhausted: _process_time_series_file returns,
\* its locals are gone, and the loop of extract is at the next file of json_files
NextFile ==
    /\ ex = "segment"
    /\ seg_k > Len(padded)
    /\ file_k' = file_k + 1
    /\ earlier_whole' = (earlier_whole /\ \A x \in 1..Len(dirs) : AllArtefacts(dirs[x][2]))
    /\ time_lapse' = <<>>
    /\ sequences' = <<>>
    /\ refined' = <<>>
    /\ padded' = <<>>
    /\ seg_k' = 1
    /\ stack_len' = 0
    /\ dirs' = <<>>
    /\ loads' = {}
    /\ ex' = "file"
    /\ UNCHANGED <<view, driver, memory, cli, refining,
                   construct, keying, min_frames, n_files>>

\* the loop over json_files is exhausted: extract returns
ExtractReturn ==
    /\ ex = "file"
    /\ file_k = n_files
    /\ ex' = "returned"
    /\ UNCHANGED <<view, driver, memory, cli, refining,
                   construct, keying, min_frames, n_files, file_k,
                   time_lapse, sequences, refined, padded, seg_k, stack_len, dirs, loads,
                   earlier_whole>>

NextExtractor ==
    \/ \E least \in MinFramesArgs, nf \in 1..MaxFiles : ExtractCall(least, nf)
    \/ \E least \in MinFramesArgs : ExtractNoFiles(least)
    \/ ReadFile
    \/ ReadFileFails
    \/ SkipShort
    \/ MakeDir
    \/ \E m \in 0..ExFrames : ExtractFrames(m)
    \/ StackEmpty
    \/ StackMismatch
    \/ SaveFrames
    \/ SaveFramesFails
    \/ SavePattern
    \/ \E saved \in BOOLEAN : SavePatternFails(saved)
    \/ NextFile
    \/ ExtractReturn

(***************************************************************************)
(* The methods of a constructed CellGenerator, called in any order with    *)
(* any argument: load_view, load_patterns, process_patterns, load_nuclei,  *)
(* load_cyto, extract_nuclei, extract_cyto, extract_pattern.               *)
(***************************************************************************)
\* a negative frame index (-1 stands for None in frame_nuclei and frame_cyto)
Below == 0 - 2

\* the frame indices the load methods are called with: a negative one, the first
\* and the last frame, and the first index past the last frame
FrameArgs == {Below, 0, NFrames - 1, NFrames}

\* nothing is returned
NoValue == [image |-> "none", frame |-> 0 - 1, frame_view |-> 0 - 1,
            box_view |-> 0 - 1, box |-> 0 - 1]

\* no method was called yet
NoCall == [op |-> "none", arg |-> 0, raised |-> FALSE, value |-> NoValue]

\* the method op was called with arg and raised
Raised(op, arg) == [op |-> op, arg |-> arg, raised |-> TRUE, value |-> NoValue]

\* the method op was called with arg and returned v
Returned(op, arg, v) == [op |-> op, arg |-> arg, raised |-> FALSE, value |-> v]

\* a load_view that accepts negative view indices
ViewOutOfRange_NoLowerBound(v, n) == v >= n

\* if view_idx >= self.n_views or view_idx < 0
ViewOutOfRange(v, n) == v >= n \/ v < 0

\* if frame_idx >= self.n_frames
FrameOutOfRange(f, n) == f >= n

\* an _extract_region that lets a negative index count from the end of the boxes
extract_region_FromEnd(kind, frame, fview, idx) ==
    IF idx >= n_patterns THEN [raised |-> TRUE, value |-> NoValue]
    ELSE IF bounding_boxes = 0 - 1 THEN [raised |-> TRUE, value |-> NoValue]
    ELSE [raised |-> FALSE,
          value |-> [image |-> kind, frame |-> frame, frame_view |-> fview,
                     box_view |-> bounding_boxes,
                     box |-> IF idx < 0 THEN n_patterns + idx ELSE idx]]

\* _extract_region(frame, pattern_idx) on a frame that is not None: the region is
\* the frame cropped to bounding_boxes[pattern_idx]
extract_region(kind, frame, fview, idx) ==
    IF ExtractRaises(idx, n_patterns) THEN [raised |-> TRUE, value |-> NoValue]
    ELSE IF bounding_boxes = 0 - 1 THEN [raised |-> TRUE, value |-> NoValue]
    ELSE [raised |-> FALSE,
          value |-> [image |-> kind, frame |-> frame, frame_view |-> fview,
                     box_view |-> bounding_boxes, box |-> idx]]

\* _init_memory
InitMemory ==
    /\ gen_patterns = 0 - 1
    /\ bounding_boxes = 0 - 1
    /\ frame_cyto = 0 - 1
    /\ frame_views = <<0 - 1, 0 - 1>>
    /\ call = NoCall

\* CellGenerator.__init__ has returned on two valid files
InitReady ==
    /\ variant = "A"
    /\ patterns_sizes = [c |-> 1, t |-> 1, v |-> NViews]
    /\ cells_sizes = [c |-> 2, t |-> NFrames, v |-> NViews]
    /\ ctor = "ready"
    /\ patterns_reader = "open"
    /\ cells_reader = "open"
    /\ n_views = NViews
    /\ n_frames = NFrames

\* load_view(v)
load_view(v) ==
    /\ IF ViewOutOfRange(v, n_views)
       THEN /\ call' = Raised("load_view", v)
            /\ UNCHANGED current_view
       ELSE /\ call' = Returned("load_view", v, NoValue)
            /\ current_view' = v
    /\ UNCHANGED <<counting, driver, cli, refining, construct, keying, exporting, n_patterns, frame_nuclei,
                   gen_patterns, bounding_boxes, frame_cyto, frame_views>>

\* load_patterns(): the pattern image of the current view is read
load_patterns ==
    /\ call' = Returned("load_patterns", 0, NoValue)
    /\ gen_patterns' = current_view
    /\ UNCHANGED <<view, driver, cli, refining, construct, keying, exporting,
                   bounding_boxes, frame_cyto, frame_views>>

\* load_patterns(): the reader raises
load_patterns_fails ==
    /\ call' = Raised("load_patterns", 0)
    /\ UNCHANGED <<view, driver, cli, refining, construct, keying, exporting,
                   gen_patterns, bounding_boxes, frame_cyto, frame_views>>

\* process_patterns(): n patterns are detected in the loaded image
process_patterns(n) ==
    /\ gen_patterns # 0 - 1
    /\ call' = Returned("process_patterns", n, NoValue)
    /\ bounding_boxes' = gen_patterns
    /\ n_patterns' = n
    /\ UNCHANGED <<counting, driver, cli, refining, construct, keying, exporting, current_view, frame_nuclei,
                   gen_patterns, frame_cyto, frame_views>>

\* process_patterns(): no image is loaded, or _find_contours finds no contour and
\* _refine_contours raises
process_patterns_fails ==
    /\ call' = Raised("process_patterns", 0)
    /\ UNCHANGED <<view, driver, cli, refining, construct, keying, exporting,
                   gen_patterns, bounding_boxes, frame_cyto, frame_views>>

\* load_nuclei(f): the index passes the check and the reader returns an image; for
\* a negative index that is whatever the reader returns for it
load_nuclei(f) ==
    /\ ~FrameOutOfRange(f, n_frames)
    /\ call' = Returned("load_nuclei", f, NoValue)
    /\ frame_nuclei' = f
    /\ frame_views' = <<current_view, frame_views[2]>>
    /\ UNCHANGED <<counting, driver, cli, refining, construct, keying, exporting, current_view, n_patterns,
                   gen_patterns, bounding_boxes, frame_cyto>>

\* load_nuclei(f): the index check or the reader raises
load_nuclei_fails(f) ==
    /\ call' = Raised("load_nuclei", f)
    /\ UNCHANGED <<view, driver, cli, refining, construct, keying, exporting,
                   gen_patterns, bounding_boxes, frame_cyto, frame_views>>

\* load_cyto(f): as load_nuclei
load_cyto(f) ==
    /\ ~FrameOutOfRange(f, n_frames)
    /\ call' = Returned("load_cyto", f, NoValue)
    /\ frame_cyto' = f
    /\ frame_views' = <<frame_views[1], current_view>>
    /\ UNCHANGED <<view, driver, cli, refining, construct, keying, exporting,
                   gen_patterns, bounding_boxes>>

\* load_cyto(f): the index check or the reader raises
load_cyto_fails(f) ==
    /\ call' = Raised("load_cyto", f)
    /\ UNCHANGED <<view, driver, cli, refining, construct, keying, exporting,
                   gen_patterns, bounding_boxes, frame_cyto, frame_views>>

\* what a call of an extract method gives
Extracted(op, idx, r) ==
    /\ call' = IF r.raised THEN Raised(op, idx) ELSE Returned(op, idx, r.value)
    /\ UNCHANGED <<view, driver, cli, refining, construct, keying, exporting,
                   gen_patterns, bounding_boxes, frame_cyto, frame_views>>

\* extract_nuclei(idx)
extract_nuclei(idx) ==
    Extracted("extract_nuclei", idx,
              IF frame_nuclei = 0 - 1 THEN [raised |-> TRUE, value |-> NoValue]
              ELSE extract_region("nuclei", frame_nuclei, frame_views[1], idx))

\* extract_cyto(idx)
extract_cyto(idx) ==
    Extracted("extract_cyto", idx,
              IF frame_cyto = 0 - 1 THEN [raised |-> TRUE, value |-> NoValue]
              ELSE extract_region("cyto", frame_cyto, frame_views[2], idx))

\* extract_pattern(idx)
extract_pattern(idx) ==
    Extracted("extract_pattern", idx,
              IF gen_patterns = 0 - 1 THEN [raised |-> TRUE, value |-> NoValue]
              ELSE extract_region("pattern", 0, gen_patterns, idx))

NextGenerator ==
    \/ \E v \in (0 - 1)..NViews : load_view(v)
    \/ load_patterns
    \/ load_patterns_fails
    \/ \E n \in {1, MaxPatterns} : process_patterns(n)
    \/ process_patterns_fails
    \/ \E f \in FrameArgs : load_nuclei(f)
    \/ \E f \in FrameArgs : load_nuclei_fails(f)
    \/ \E f \in FrameArgs : load_cyto(f)
    \/ \E f \in FrameArgs : load_cyto_fails(f)
    \/ \E idx \in (0 - 1)..MaxPatterns : extract_nuclei(idx)
    \/ \E idx \in (0 - 1)..MaxPatterns : extract_cyto(idx)
    \/ \E idx \in (0 - 1)..MaxPatterns : extract_pattern(idx)

(***************************************************************************)
(* cli/analyze.py: main() around Analyzer.process_views.  An option that   *)
(* was not given is <<>>, one that was given is <<its value>>.             *)
(***************************************************************************)
\* no command line yet
NoArgs == [all |-> FALSE, start_view |-> <<>>, end_view |-> <<>>, files |-> FALSE]

\* --start-view, --end-view: absent or an int
OptionalViews == {<<>>} \cup {<<x>> : x \in (0 - 1)..(NViews + 1)}

\* the command lines: --all, --start-view, --end-view, and whether the patterns
\* file and the cells file both exist
CliArgs == [all : BOOLEAN, start_view : OptionalViews, end_view : OptionalViews,
            files : BOOLEAN]

\* if args.start_view is not None and args.end_view is None
EndViewRequired(a) == a.start_view # <<>> /\ a.end_view = <<>>

InitCli ==
    /\ args = NoArgs
    /\ main = "none"
    /\ exit_status = 0 - 1

\* the program is started with a command line
Invoke(a) ==
    /\ main \in {"none", "exited"}
    /\ run = "stopped"
    /\ args' = a
    /\ main' = "parsed"
    /\ exit_status' = 0 - 1
    /\ UNCHANGED <<view, driver, construct, keying, exporting, memory, refining>>

\* the process ends with the given status: sys.exit(status), or an exception
\* that main() logs and raises again; its command line is gone with it
SysExit(status) ==
    /\ ProcessGone
    /\ last_stop' = NoStop
    /\ main' = "exited"
    /\ exit_status' = status
    /\ args' = NoArgs
    /\ UNCHANGED <<analysis, folder, tracking_file, result_file,
                   construct, keying, exporting, memory, refining>>

\* if not os.path.exists(args.patterns) / args.cells: print, sys.exit(1)
ExitFileNotFound ==
    /\ main = "parsed"
    /\ ~args.files
    /\ SysExit(1)

\* print("--end-view is required when --start-view is specified"); sys.exit(1)
ExitEndViewRequired ==
    /\ main = "parsed"
    /\ args.files
    /\ EndViewRequired(args)
    /\ SysExit(1)

\* analyzer = Analyzer(...): the generator opens both readers
ConstructAnalyzer ==
    /\ main = "parsed"
    /\ args.files
    /\ ~EndViewRequired(args)
    /\ main' = "constructed"
    /\ handles_open' = TRUE
    /\ UNCHANGED <<view, construct, keying, exporting, memory, refining, args, exit_status,
                   run, start_view, end_view, view_idx, processed_views, view_results,
                   folder, tracking_file, result_file,
                   analyzed, completed, last_stop, must_skip, skip_run, view_failed>>

\* Analyzer(...) raises ValueError("Error initializing Analyzer")
ConstructAnalyzerFails ==
    /\ main = "parsed"
    /\ args.files
    /\ ~EndViewRequired(args)
    /\ SysExit(1)

\* logger.info(f"Processing views {args.start_view} to {args.end_view-1}") with
\* end_view None: TypeError
LogRangeFails ==
    /\ main = "constructed"
    /\ ~args.all
    /\ args.end_view = <<>>
    /\ SysExit(1)

\* analyzer.process_views(None, end_view): `start_view < 0` raises TypeError
CompareStartFails ==
    /\ main = "constructed"
    /\ ~args.all
    /\ args.end_view # <<>>
    /\ args.start_view = <<>>
    /\ SysExit(1)

\* analyzer.process_views(0, n_views) with --all, else
\* analyzer.process_views(args.start_view, args.end_view)
MainCallsProcessViews ==
    /\ main = "constructed"
    /\ args.all \/ (args.start_view # <<>> /\ args.end_view # <<>>)
    /\ run = "stopped"
    /\ main' = "process_views"
    /\ run' = "called"
    /\ start_view' = IF args.all THEN 0 ELSE args.start_view[1]
    /\ end_view' = IF args.all THEN NViews ELSE args.end_view[1]
    /\ analyzed' = {}
    /\ completed' = {}
    /\ must_skip' = {}
    /\ skip_run' = FALSE
    /\ view_failed' = NoFailure
    /\ UNCHANGED <<view, construct, keying, exporting, memory, refining, args, exit_status,
                   view_idx, processed_views, view_results, handles_open, folder,
                   tracking_file, result_file, last_stop>>

\* process_views returned: main() returns, status 0; process_views raised: the
\* except branch of main() logs the error and raises it again, status 1
MainEnds ==
    /\ main = "process_views"
    /\ run \in {"returned", "raised"}
    /\ SysExit(IF run = "raised" THEN 1 ELSE 0)

NextCli ==
    \/ \E a \in CliArgs : Invoke(a)
    \/ ExitFileNotFound
    \/ ExitEndViewRequired
    \/ ConstructAnalyzer
    \/ ConstructAnalyzerFails
    \/ LogRangeFails
    \/ CompareStartFails
    \/ MainCallsProcessViews
    \/ RaiseInvalidRange
    \/ LoadTracking
    \/ SkipView
    \/ \E r \in 1..NResults : AnalyzeView(r)
    \/ AnalyzeViewFails
    \/ AnalyzeViewNoPattern
    \/ OpenResult
    \/ DumpResult
    \/ DumpResultFails
    \/ OpenTracking
    \/ DumpTracking
    \/ DumpTrackingFails
    \/ CloseAndReturn
    \/ MainEnds

\* a command line whose view range is invalid: without --all a missing
\* --start-view or --end-view, or start < 0, end > n_views or start >= end
InvalidCommandLine(a) ==
    IF a.all THEN NViews <= 0
    ELSE \/ a.start_view = <<>>
         \/ a.end_view = <<>>
         \/ a.start_view[1] < 0
         \/ a.end_view[1] > NViews
         \/ a.start_view[1] >= a.end_view[1]

RECURSIVE SumSeq(_)
\* the sum of a sequence of numbers
SumSeq(s) == IF s = <<>> THEN 0 ELSE Head(s) + SumSeq(Tail(s))

\* areas = [cv2.contourArea(contour) for contour in contours]
Areas(cs) == [i \in 1..Len(cs) |-> cs[i].area]

\* K * K * the square of |area - mean_area| of contour i
Deviation2(cs, i) ==
    LET d == Len(cs) * cs[i].area - SumSeq(Areas(cs)) IN d * d

\* K * K * the square of AREA_STD_DEVIATIONS * std_area
Allowed2(cs) ==
    LET sum == SumSeq(Areas(cs))
        squares == SumSeq([i \in 1..Len(cs) |-> cs[i].area * cs[i].area])
    IN AREA_STD_DEVIATIONS * AREA_STD_DEVIATIONS * (Len(cs) * squares - sum * sum)

\* the areas at which abs(area - mean_area) and 2 * std_area are equal but for
\* their rounding
EdgeAreas(cs) ==
    {cs[i].area : i \in {j \in 1..Len(cs) : Deviation2(cs, j) = Allowed2(cs) /\ Allowed2(cs) > 0}}

\* a filter that skips small areas only
Skipped_Small(cs, i, rounded_out) ==
    \/ Len(cs) * cs[i].area < SumSeq(Areas(cs)) /\ Deviation2(cs, i) > Allowed2(cs)
    \/ cs[i].area \in rounded_out

\* if abs(area - mean_area) > AREA_STD_DEVIATIONS * std_area: continue
\* (rounded_out: the edge areas for which the rounding makes this true)
Skipped(cs, i, rounded_out) ==
    \/ Deviation2(cs, i) > Allowed2(cs)
    \/ cs[i].area \in rounded_out

\* the key of the sort: (center_y, center_x)
KeyLess(a, b) == a.row < b.row \/ (a.row = b.row /\ a.col < b.col)

RECURSIVE InsertByCenter(_, _, _)
\* list.sort is stable: a contour goes behind those of smaller or equal key
InsertByCenter(cs, sorted, i) ==
    IF sorted = <<>> THEN <<i>>
    ELSE IF KeyLess(cs[i], cs[Head(sorted)])
         THEN <<i>> \o sorted
         ELSE <<Head(sorted)>> \o InsertByCenter(cs, Tail(sorted), i)

RECURSIVE RefineLoop(_, _, _, _)
\* for contour in contours: skip or append; then contour_data.sort(key=...)
RefineLoop(cs, i, rounded_out, sorted) ==
    IF i > Len(cs) THEN sorted
    ELSE RefineLoop(cs, i + 1, rounded_out,
                    IF Skipped(cs, i, rounded_out) THEN sorted
                    ELSE InsertByCenter(cs, sorted, i))

\* the areas 0..MaxArea, many[a] contours of area a, in ascending order
AreasOfCounts(many) ==
    LET upto(a) == SumSeq([x \in 1..(a + 1) |-> many[x - 1]])
    IN [i \in 1..upto(MaxArea) |-> CHOOSE a \in 0..MaxArea :
                                       /\ i <= upto(a)
                                       /\ a > 0 => i > upto(a - 1)]

\* few contours with any centers on a small grid
FewContours ==
    UNION {[1..n -> [area : 0..1, row : 0..MaxCenter, col : 0..MaxCenter]] : n \in 0..MaxContours}

\* many contours of few areas in one row, detected from right to left
ManyContours ==
    LET counted == {g \in [0..MaxArea -> 0..MaxMany] :
                        SumSeq([x \in 1..(MaxArea + 1) |-> g[x - 1]]) \in (MaxContours + 1)..MaxMany}
    IN {[i \in 1..Len(AreasOfCounts(g)) |->
            [area |-> AreasOfCounts(g)[i], row |-> 0, col |-> Len(AreasOfCounts(g)) - i]] :
        g \in counted}

\* nothing was returned
NotRefined == [st |-> "none", data |-> <<>>]

\* the iterative variant is not inside its loop
InitStripping ==
    /\ current_contours = <<>>
    /\ iteration = 0
    /\ refine_pc = "idle"

\* no call of _refine_contours
InitRefine ==
    /\ contours = <<>>
    /\ contour_data = NotRefined
    /\ InitStripping

\* _refine_contours is about to be called with some contours
InitContours ==
    /\ contours \in FewContours \cup ManyContours
    /\ contour_data = NotRefined
    /\ InitStripping

\* if contours is None or len(contours) == 0: raise ValueError
refine_contours_raises ==
    /\ contour_data.st = "none"
    /\ Len(contours) = 0
    /\ contour_data' = [st |-> "raised", data |-> <<>>]
    /\ UNCHANGED <<view, driver, construct, keying, exporting, memory, cli, contours, stripping>>

\* _refine_contours(contours) returns contour_data
refine_contours(rounded_out) ==
    /\ contour_data.st = "none"
    /\ Len(contours) > 0
    /\ contour_data' = [st |-> "returned", data |-> RefineLoop(contours, 1, rounded_out, <<>>)]
    /\ UNCHANGED <<view, driver, construct, keying, exporting, memory, cli, contours, stripping>>

NextRefine ==
    \/ refine_contours_raises
    \/ \E rounded_out \in SUBSET EdgeAreas(contours) : refine_contours(rounded_out)

(***************************************************************************)
(* cell_filter/core/generate.py, CellGenerator._refine_contours: areas far *)
(* from the mean are stripped pass by pass, then the contours near the     *)
(* image edges are skipped and the rest is sorted.  A contour is its area  *)
(* and its bounding rectangle (x, y, w, h).                                *)
(***************************************************************************)
\* image_shape: (height, width)
image_shape == <<ImageHeight, ImageWidth>>

\* current_areas
CurrentAreas(cs, cur) == [i \in 1..Len(cur) |-> cs[cur[i]].area]

\* len * len * np.var(current_areas)
Spread(cs, cur) ==
    LET sum == SumSeq(CurrentAreas(cs, cur))
        squares == SumSeq([i \in 1..Len(cur) |-> cs[cur[i]].area * cs[cur[i]].area])
    IN Len(cur) * squares - sum * sum

\* cv = np.std(current_areas) / np.mean(current_areas); cv < bimodal_threshold
\* (a mean of 0 gives nan, which is below nothing)
CvBelowThreshold(cs, cur) ==
    LET sum == SumSeq(CurrentAreas(cs, cur))
    IN  /\ sum > 0
        /\ 100 * Spread(cs, cur) < bimodal_threshold_tenths * bimodal_threshold_tenths * sum * sum

\* a pass that strips the small areas only
InAreaRange_NoMax(cs, cur, i) ==
    2 * Len(cur) * cs[i].area >= min_area_ratio_halves * SumSeq(CurrentAreas(cs, cur))

\* area >= min_area and area <= max_area
InAreaRange(cs, cur, i) ==
    LET sum == SumSeq(CurrentAreas(cs, cur))
    IN  /\ 2 * Len(cur) * cs[i].area >= min_area_ratio_halves * sum
        /\ 2 * Len(cur) * cs[i].area <= max_area_ratio_halves * sum

\* new_contours of one pass
Stripped(cs, cur) == SelectSeq(cur, LAMBDA i : InAreaRange(cs, cur, i))

\* an edge test that leaves out the right and the bottom edge
TooCloseToEdge_TopLeftOnly(c, shape) ==
    c.x < edge_tolerance \/ c.y < edge_tolerance

\* if x < edge_tolerance or y < edge_tolerance or x + w > image_shape[1] - ..
TooCloseToEdge(c, shape) ==
    \/ c.x < edge_tolerance
    \/ c.y < edge_tolerance
    \/ c.x + c.w > shape[2] - edge_tolerance
    \/ c.y + c.h > shape[1] - edge_tolerance

\* center_y = y + h // 2
center_y(c) == c.y + c.h \div 2

\* center_x = x + w // 2
center_x(c) == c.x + c.w \div 2

\* the key of the sort: (center_y, center_x)
CenterLess(a, b) ==
    center_y(a) < center_y(b) \/ (center_y(a) = center_y(b) /\ center_x(a) < center_x(b))

RECURSIVE InsertByKey(_, _, _)
\* list.sort is stable: a contour goes behind those of smaller or equal key
InsertByKey(cs, sorted, i) ==
    IF sorted = <<>> THEN <<i>>
    ELSE IF CenterLess(cs[i], cs[Head(sorted)])
         THEN <<i>> \o sorted
         ELSE <<Head(sorted)>> \o InsertByKey(cs, Tail(sorted), i)

RECURSIVE EdgeLoop(_, _, _, _)
\* for contour in current_contours: skip or append; then contour_data.sort(key=...)
EdgeLoop(cs, cur, i, sorted) ==
    IF i > Len(cur) THEN sorted
    ELSE EdgeLoop(cs, cur, i + 1,
                  IF TooCloseToEdge(cs[cur[i]], image_shape) THEN sorted
                  ELSE InsertByKey(cs, sorted, cur[i]))

\* the bounding rectangles a contour is given: at, inside and beyond the edges
BoxArgs ==
    [x : {edge_tolerance - 1, edge_tolerance, ImageWidth - edge_tolerance - 1},
     y : {edge_tolerance - 1, edge_tolerance, ImageHeight - edge_tolerance - 1},
     w : 1..MaxSide,
     h : 1..MaxSide]

\* few contours of one area with any of the bounding rectangles
BoxedContours ==
    UNION {[1..n -> {[area |-> 1, x |-> b.x, y |-> b.y, w |-> b.w, h |-> b.h] : b \in BoxArgs}] :
           n \in 0..MaxBoxes}

\* contours of any areas, ascending, in one row, detected from right to left:
\* the first is at the right edge tolerance, the last ones are left of the left one
AreaContours ==
    LET ascending == UNION {{g \in [1..n -> 0..MaxStripArea] :
                                \A i \in 1..(n - 1) : g[i] <= g[i + 1]} : n \in 1..MaxStrip}
    IN {[i \in 1..Len(g) |-> [area |-> g[i], x |-> ImageWidth - edge_tolerance - i,
                               y |-> edge_tolerance, w |-> 1, h |-> 1]] : g \in ascending}

\* _refine_contours is about to be called with some contours
InitIterative ==
    /\ contours \in BoxedContours \cup AreaContours
    /\ contour_data = NotRefined
    /\ InitStripping

\* if not contours: raise ValueError("No contours provided")
NoContoursProvided ==
    /\ refine_pc = "idle"
    /\ contours = <<>>
    /\ contour_data' = [st |-> "raised", data |-> <<>>]
    /\ refine_pc' = "done"
    /\ UNCHANGED <<view, driver, construct, keying, exporting, memory, cli, contours,
                   current_contours, iteration>>

\* current_contours = list(contours), and the loop is entered
EnterLoop ==
    /\ refine_pc = "idle"
    /\ contours # <<>>
    /\ current_contours' = [i \in 1..Len(contours) |-> i]
    /\ iteration' = 0
    /\ refine_pc' = "loop"
    /\ UNCHANGED <<view, driver, construct, keying, exporting, memory, cli, contours,
                   contour_data>>

\* if cv < bimodal_threshold: break
CvBreak ==
    /\ refine_pc = "loop"
    /\ iteration < max_iterations
    /\ CvBelowThreshold(contours, current_contours)
    /\ refine_pc' = "edges"
    /\ UNCHANGED <<view, driver, construct, keying, exporting, memory, cli, contours,
                   contour_data, current_contours, iteration>>

\* one pass of the loop that strips; break if no contour is left
StripPass ==
    /\ refine_pc = "loop"
    /\ iteration < max_iterations
    /\ ~CvBelowThreshold(contours, current_contours)
    /\ current_contours' = Stripped(contours, current_contours)
    /\ iteration' = iteration + 1
    /\ refine_pc' = IF Stripped(contours, current_contours) = <<>> THEN "edges" ELSE "loop"
    /\ UNCHANGED <<view, driver, construct, keying, exporting, memory, cli, contours,
                   contour_data>>

\* range(max_iterations) is exhausted
LoopExhausted ==
    /\ refine_pc = "loop"
    /\ iteration = max_iterations
    /\ refine_pc' = "edges"
    /\ UNCHANGED <<view, driver, construct, keying, exporting, memory, cli, contours,
                   contour_data, current_contours, iteration>>

\* the contours near the edges are skipped, the rest is sorted and returned
ReturnContourData ==
    /\ refine_pc = "edges"
    /\ contour_data' = [st |-> "returned",
                        data |-> EdgeLoop(contours, current_contours, 1, <<>>)]
    /\ refine_pc' = "done"
    /\ UNCHANGED <<view, driver, construct, keying, exporting, memory, cli, contours,
                   current_contours, iteration>>

NextIterative ==
    \/ NoContoursProvided
    \/ EnterLoop
    \/ CvBreak
    \/ StripPass
    \/ LoopExhausted
    \/ ReturnContourData


\* C30: the regions exported for a segment are cropped to the bounding box of
\* its original pattern, composite id // 1000, not to the box of another pattern.
C30_CroppedToOriginalPattern ==
    \A x \in 1..Len(dirs) :
        dirs[x][2].frames > 0 => dirs[x][2].box = dirs[x][1] \div 1000

(***************************************************************************)
(* Claims about the refiner of the detected contours.                      *)
(***************************************************************************)
\* the contours whose area exceeds mean + 2 * std
AboveTwoStd(cs) ==
    {i \in 1..Len(cs) : Len(cs) * cs[i].area > SumSeq(Areas(cs))
                        /\ Deviation2(cs, i) > Allowed2(cs)}

\* the contours whose area differs from the mean, by 2 * std or more
TwoStdOrMore(cs) ==
    {i \in 1..Len(cs) : Deviation2(cs, i) > 0 /\ Deviation2(cs, i) >= Allowed2(cs)}

\* C28: variant A returns exactly the contours whose area differs from the mean
\* area of all input contours by at most 2 standard deviations, each once,
\* ascending by (center row, center column), contours of equal center in their
\* order of detection.
C28_WithinTwoStdInReadingOrder ==
    contour_data.st = "returned" =>
        LET out == contour_data.data IN
        /\ Range(out) = {i \in 1..Len(contours) : Deviation2(contours, i) <= Allowed2(contours)}
        /\ Len(out) = Cardinality(Range(out))
        /\ \A p, q \in 1..Len(out) :
               p < q => /\ ~KeyLess(contours[out[q]], contours[out[p]])
                        /\ ~KeyLess(contours[out[p]], contours[out[q]]) => out[p] < out[q]

\* C29 as stated: when exactly one area exceeds mean + 2 * std, that contour is
\* excluded and the other K - 1 are returned.
C29_OneAboveTwoStd ==
    contour_data.st = "returned" /\ Cardinality(AboveTwoStd(contours)) = 1 =>
        /\ Range(contour_data.data) = (1..Len(contours)) \ AboveTwoStd(contours)
        /\ Len(contour_data.data) = Len(contours) - 1

\* C29: when exactly one area differs from the mean by 2 * std or more, and it
\* exceeds mean + 2 * std, that contour is excluded and the other K - 1 are
\* returned.
C29_OnlyOutlierExcluded ==
    contour_data.st = "returned" /\ Cardinality(TwoStdOrMore(contours)) = 1
                                 /\ Cardinality(AboveTwoStd(contours)) = 1 =>
        /\ Range(contour_data.data) = (1..Len(contours)) \ AboveTwoStd(contours)
        /\ Len(contour_data.data) = Len(contours) - 1

\* of six contours, five of one area and a larger one, five were returned
C29_Witness ==
    /\ contour_data.st = "returned"
    /\ Len(contours) = 6
    /\ Cardinality(TwoStdOrMore(contours)) = 1
    /\ AboveTwoStd(contours) = {6}
    /\ Len(contour_data.data) = 5

(***************************************************************************)
(* Claims about the tracking state across analyses.                        *)
(***************************************************************************)
\* C25: the tracking state of a view is created fresh when its analysis starts:
\* every pattern of the view tracked, in order, nothing dropped, no frame saved,
\* no result of an earlier analysis kept, whatever an earlier analysis left,
\* one that failed part-way included.
C25_TrackingCreatedFresh ==
    pc = "load" /\ frame_idx = 0 =>
        /\ patterns.tracked = [x \in 1..n_patterns |-> x - 1]
        /\ patterns.dropped_zero = <<>>
        /\ patterns.dropped_many = <<>>
        /\ DOMAIN patterns.saved = 0..(n_patterns - 1)
        /\ \A p \in DOMAIN patterns.saved : patterns.saved[p] = <<>>
        /\ results = << >>

\* an analysis of two patterns starts after an earlier one loaded frame 0 and
\* failed at the load of frame 1
C25_Witness ==
    /\ pc = "load"
    /\ frame_idx = 0
    /\ n_patterns = 2
    /\ frame_nuclei = 0
    /\ patterns.tracked = <<0, 1>>

\* C26: a view in which no pattern is detected is not an error: when
\* process_views returns, its result was written and the view is recorded.
C26_NoPatternViewCompleted ==
    run = "returned" =>
        \A v \in Views :
            view_failed[v] = "detection" => v \in completed /\ v \in processed_views

(***************************************************************************)
(* Claims about the methods of the CellGenerator.                          *)
(***************************************************************************)
\* the three extract methods
ExtractOps == {"extract_nuclei", "extract_cyto", "extract_pattern"}

\* the image an extract method crops: its kind, the held frame (-1 = None), its view
HeldImage(op) ==
    CASE op = "extract_nuclei" -> <<"nuclei", frame_nuclei, frame_views[1]>>
      [] op = "extract_cyto" -> <<"cyto", frame_cyto, frame_views[2]>>
      [] OTHER -> <<"pattern", IF gen_patterns = 0 - 1 THEN 0 - 1 ELSE 0, gen_patterns>>

\* C21: load_nuclei and load_cyto fail for every frame index outside
\* [0, n_frames), negative indices included, and a failed call leaves the frames
\* loaded before unchanged.
C21_FrameIndexChecked ==
    [][call'.op \in {"load_nuclei", "load_cyto"} =>
          /\ call'.arg \notin 0..(n_frames - 1) => call'.raised
          /\ call'.raised => frame_nuclei' = frame_nuclei /\ frame_cyto' = frame_cyto]_vars

\* C22: load_view(v) succeeds and makes v the active view exactly when
\* 0 <= v < n_views; any other index fails and the active view stays as it was.
C22_LoadViewExactlyInRange ==
    [][call'.op = "load_view" =>
          IF call'.arg \in 0..(n_views - 1)
          THEN ~call'.raised /\ current_view' = call'.arg
          ELSE call'.raised /\ current_view' = current_view]_vars

\* a negative view index was refused while view 1 was active, and view 1 still is
C22_Witness ==
    call.op = "load_view" /\ call.arg = 0 - 1 /\ call.raised /\ current_view = 1

C24_NoRegionOfAnotherView ==
    call.op \in ExtractOps /\ ~call.raised =>
        call.value.frame_view = current_view /\ call.value.box_view = current_view

(***************************************************************************)
(* Claims about the Extractor.                                             *)
(***************************************************************************)
\* the frames of a saved list in ascending order, as a set
FrameSet(frames) == {frames[x] : x \in 1..Len(frames)}

\* the segments of seqs that hold frame f
SegmentsOf(seqs, f) == {g \in 1..Len(seqs) : seqs[g][1] <= f /\ f <= seqs[g][2]}

\* the refiner's answer for one pattern p with saved frames: its segments seqs
RefinedAsClaimed(p, frames, seqs) ==
    LET sorted == SortFrames(frames)
    IN  /\ \A g \in 1..Len(seqs) :
              /\ seqs[g][1] \in FrameSet(frames)
              /\ seqs[g][2] \in FrameSet(frames)
              /\ seqs[g][1] <= seqs[g][2]
              /\ \A f \in FrameSet(frames) :
                    ~(f < seqs[g][1] /\ seqs[g][1] - f <= 6)
                    /\ ~(f > seqs[g][2] /\ f - seqs[g][2] <= 6)
              /\ DictGet(refined, SegmentId(p, g - 1)) = seqs[g]
        /\ \A f \in FrameSet(frames) : Cardinality(SegmentsOf(seqs, f)) = 1
        /\ \A x \in 1..(Len(sorted) - 1) :
              (SegmentsOf(seqs, sorted[x]) = SegmentsOf(seqs, sorted[x + 1]))
                  <=> (sorted[x + 1] - sorted[x] <= 6)

\* C13: for every pattern with saved frames the refiner's segments are such that
\* two frames adjacent in sorted order share a segment exactly when they differ
\* by at most 6, a segment is [smallest, largest] frame of its run, and every
\* saved frame lies in exactly one segment; [1,2,3,10,11,12] gives [1,3] and
\* [10,12], [1,2,3,8,9] gives [1,9], and an unsorted list is sorted first
C13_SegmentsSplitAtGaps ==
    /\ \A x \in 1..Len(time_lapse) :
          /\ time_lapse[x][1] \in DictKeys(sequences)
          /\ RefinedAsClaimed(time_lapse[x][1], time_lapse[x][2],
                              DictGet(sequences, time_lapse[x][1]))
    /\ ex \in {"segment", "frames", "stack", "pattern"} =>
          /\ find_sequences(SortFrames(<<1, 2, 3, 10, 11, 12>>)) = << <<1, 3>>, <<10, 12>> >>
          /\ find_sequences(SortFrames(<<1, 2, 3, 8, 9>>)) = << <<1, 9>> >>
          /\ find_sequences(SortFrames(<<12, 1, 11, 3, 10, 2>>)) = << <<1, 3>>, <<10, 12>> >>

\* a file whose pattern was split in two at a gap above 6, one segment of which
\* spans saved frames that are not consecutive
C13_Witness ==
    /\ ex = "segment"
    /\ \E x \in 1..Len(sequences) :
          /\ Len(sequences[x][2]) = 2
          /\ \E g \in 1..2 : sequences[x][2][g][2] - sequences[x][2][g][1] > 1
          /\ Len(time_lapse[x][2]) = 3


\* C15: padding a segment [start, end] with margin 3 gives
\* [max(0, start-3), min(total_frames-1, end+3)]; the padded segment contains
\* the segment and lies within [0, total_frames-1]; [10,12] with 100 frames
\* gives [7,15] and [0,2] gives [0,5]
C15_PaddedWithinFile ==
    /\ DictKeys(padded) = DictKeys(refined)
    /\ \A x \in 1..Len(refined) :
          LET start == refined[x][2][1]
              end == refined[x][2][2]
              new == DictGet(padded, refined[x][1])
          IN  /\ new[1] = (IF start - 3 < 0 THEN 0 ELSE start - 3)
              /\ new[2] = (IF end + 3 > n_frames - 1 THEN n_frames - 1 ELSE end + 3)
              /\ new[1] <= start /\ end <= new[2]
              /\ 0 <= new[1] /\ new[2] <= n_frames - 1
    /\ ex \in {"segment", "frames", "stack", "pattern"} =>
          /\ head_tail(<<10, 12>>, 3, 100) = <<7, 15>>
          /\ head_tail(<<0, 2>>, 3, 100) = <<0, 5>>

\* a file with a segment whose head is clamped at frame 0, and a segment whose
\* tail is clamped at the last frame
C15_Witness ==
    /\ ex = "segment"
    /\ \E x, y \in 1..Len(refined) :
          /\ refined[x][2][1] < 3
          /\ padded[x][2][1] = 0
          /\ refined[y][2][2] + 3 > n_frames - 1
          /\ padded[y][2][2] = n_frames - 1
          /\ padded[y][2][1] = refined[y][2][1] - 3

\* the frames segment g of the file spans after padding
SpanOf(g) == padded[g][2][2] - padded[g][2][1] + 1

\* C16: a padded segment is exported only if end - start + 1 >= min_frames: a
\* segment of exactly min_frames frames is kept, a shorter one is discarded and
\* causes no frame loading and no directory
C16_ShortSegmentsDiscarded ==
    /\ \A g \in 1..Len(padded) :
          SpanOf(g) < min_frames =>
              /\ padded[g][1] \notin DictKeys(dirs)
              /\ padded[g][1] \notin loads
    /\ \A g \in 1..Len(padded) :
          (g < seg_k /\ SpanOf(g) >= min_frames) => padded[g][1] \in DictKeys(dirs)

\* a file of which the segment of exactly min_frames frames was kept and the
\* segment one frame shorter was discarded
C16_Witness ==
    /\ ex = "segment"
    /\ seg_k > Len(padded)
    /\ \E g, h \in 1..Len(padded) :
          /\ SpanOf(g) = min_frames
          /\ padded[g][1] \in DictKeys(dirs)
          /\ padded[g][1] \in loads
          /\ SpanOf(h) = min_frames - 1
          /\ padded[h][1] \notin DictKeys(dirs)

\* C17: when some but not all frames of a surviving segment are extracted, the
\* segment is still exported, with a stack of the frames that were extracted,
\* and processing continues; only a failure to write the stack ends the run
C17_PartialSegmentExported ==
    [][(ex = "stack" /\ 0 < stack_len /\ stack_len < SegmentFrames) =>
           \/ ex' = "raised"
           \/ /\ ex' = "pattern"
              /\ DictGet(dirs', SegmentKey).frames = stack_len]_vars

\* C18: when extraction finishes, every export directory that exists holds all
\* three artefacts; a segment that was skipped leaves no directory behind
C18_DirectoriesComplete == ex = "returned" => earlier_whole

(***************************************************************************)
(* Specifications: one Analyzer analyzing views frame by frame, and the    *)
(* multi-view driver over the output folder.                               *)
(***************************************************************************)
Init == InitView /\ InitDriver /\ InitOffline /\ InitKeying /\ InitExporting /\ InitMemory
        /\ InitCli /\ InitRefine

Spec == Init /\ [][NextView]_vars

\* the driver never reads the wanted count: one value of it is enough here
InitViews == Init /\ wanted = 0

SpecViews == InitViews /\ [][NextDriver]_vars

\* the construction of a CellGenerator on two files
InitFiles ==
    /\ InitView /\ wanted = 0 /\ InitDriver /\ InitConstructor /\ InitKeying /\ InitExporting
    /\ InitMemory /\ InitCli /\ InitRefine

SpecConstructor == InitFiles /\ [][NextConstructor]_vars

\* the keys of the sequences of the patterns of one time lapse
InitIds ==
    /\ InitView /\ wanted = 0 /\ InitDriver /\ InitOffline /\ InitSequences /\ InitExporting
    /\ InitMemory /\ InitCli /\ InitRefine

SpecIds == InitIds /\ [][NextKeying]_vars

\* one call of extract of an Extractor
InitExtract ==
    InitView /\ wanted = 0 /\ InitDriver /\ InitKeying /\ InitExtractor /\ InitMemory
    /\ InitCli /\ InitRefine

SpecExtract == InitExtract /\ [][NextExtractor]_vars

\* the methods of one constructed CellGenerator
InitGenerator ==
    /\ InitView /\ wanted = 0 /\ InitDriver /\ InitReady /\ InitKeying /\ InitExporting
    /\ InitMemory /\ InitCli /\ InitRefine

SpecGenerator == InitGenerator /\ [][NextGenerator]_vars

\* runs of the command line program, one after the other, over one output folder
SpecCli == InitViews /\ [][NextCli]_vars

\* one call of _refine_contours
InitRefiner ==
    /\ InitView /\ wanted = 0 /\ InitDriver /\ InitOffline /\ InitKeying /\ InitExporting
    /\ InitMemory /\ InitCli /\ InitContours

SpecRefine == InitRefiner /\ [][NextRefine]_vars

\* one call of _refine_contours of the iterative variant
InitIterativeRefiner ==
    /\ InitView /\ wanted = 0 /\ InitDriver /\ InitOffline /\ InitKeying /\ InitExporting
    /\ InitMemory /\ InitCli /\ InitIterative

SpecIterative == InitIterativeRefiner /\ [][NextIterative]_vars

(***************************************************************************)
(* Vocabulary of the properties.                                           *)
(***************************************************************************)
PatternIds == DOMAIN patterns.saved

Tracked(P) == Range(P.tracked)

Dropped(P) == Range(P.dropped_zero) \cup Range(P.dropped_many)

\* analyze_time_series is between Patterns(n_patterns) and its return
InView == pc \in {"load", "extract", "update", "results"}

\* _process_frame has just returned and the next frame has not been entered
FrameReturned == pc \in {"load", "results"} /\ outcome # "none"

\* the number of the three sets that hold pattern p
SetsHolding(P, p) ==
    (IF p \in Range(P.tracked) THEN 1 ELSE 0)
    + (IF p \in Range(P.dropped_zero) THEN 1 ELSE 0)
    + (IF p \in Range(P.dropped_many) THEN 1 ELSE 0)

\* the running step is one iteration of the update loop
IsUpdateStep == pc = "update" /\ k <= ZipLen(tracked_indices, counts) /\ k' = k + 1

\* the running step is one iteration of the extraction loop that got its region
IsExtractOk == pc = "extract" /\ Len(nuclei_list') = Len(nuclei_list) + 1

(***************************************************************************)
(* C1: at every point of a view's processing every pattern index in        *)
(* [0, n_patterns) is in exactly one of tracked, dropped_zero and          *)
(* dropped_many.                                                           *)
(***************************************************************************)
C1_ExactlyOneSet ==
    \A p \in PatternIds : SetsHolding(patterns, p) = 1

(***************************************************************************)
(* C2: in every frame the i-th count of the batch is applied to the        *)
(* pattern whose region was the i-th element of the batch.                 *)
(***************************************************************************)
C2_CountAppliedToOwnPattern ==
    pc = "update" =>
        \A j \in 1..ZipLen(tracked_indices, counts) : tracked_indices[j] = nuclei_list[j]

(***************************************************************************)
(* C3: for wanted >= 1 and a count n of a tracked pattern's own region in  *)
(* frame f: n = wanted appends f to its saved list and leaves it tracked;  *)
(* n = 0 moves it to dropped_zero; n > wanted moves it to dropped_many;    *)
(* 0 < n < wanted changes nothing.                                         *)
(***************************************************************************)
C3_TransitionRule ==
    [][(/\ IsUpdateStep
        /\ wanted >= 1
        /\ nuclei_list[k] = tracked_indices[k]
        /\ tracked_indices[k] \in Tracked(patterns))
       => LET p == tracked_indices[k]
              n == counts[k]
          IN  /\ n = wanted =>
                    /\ patterns'.saved = [patterns.saved EXCEPT ![p] = Append(@, frame_idx)]
                    /\ patterns'.tracked = patterns.tracked
                    /\ patterns'.dropped_zero = patterns.dropped_zero
                    /\ patterns'.dropped_many = patterns.dropped_many
              /\ n = 0 =>
                    /\ p \notin Tracked(patterns')
                    /\ p \in Range(patterns'.dropped_zero)
                    /\ p \notin Range(patterns'.dropped_many)
                    /\ patterns'.saved = patterns.saved
              /\ n > wanted =>
                    /\ p \notin Tracked(patterns')
                    /\ p \in Range(patterns'.dropped_many)
                    /\ p \notin Range(patterns'.dropped_zero)
                    /\ patterns'.saved = patterns.saved
              /\ (0 < n /\ n < wanted) => patterns' = patterns]_vars

\* all four cases have happened in one view: pattern 0 counted 2, 0 and pattern 1
\* counted 1, 2, 3 with wanted = 2
C3_Witness ==
    /\ wanted = 2
    /\ clean
    /\ patterns.dropped_zero = <<0>>
    /\ patterns.dropped_many = <<1>>
    /\ patterns.saved = (0 :> <<0>> @@ 1 :> <<1>>)

(***************************************************************************)
(* C4: once a pattern is in dropped_zero or dropped_many, no frame index   *)
(* is appended to its saved list by any later observation of the view.     *)
(***************************************************************************)
C4_NoSaveAfterDrop ==
    [][InView =>
         \A p \in PatternIds :
            p \in Dropped(patterns) => patterns'.saved[p] = patterns.saved[p]]_vars

\* a frame after the one that dropped a pattern has had its counts applied
C4_Witness ==
    /\ pc = "update"
    /\ k > ZipLen(tracked_indices, counts)
    /\ \E p \in PatternIds : p \in Dropped(pre) /\ patterns.saved[p] # <<>>
    /\ \E j \in 1..Len(counts) : counts[j] = wanted

(***************************************************************************)
(* C5: once a pattern index has left tracked it is never in tracked again  *)
(* for the rest of the view, and no region is extracted or submitted to    *)
(* the counter for it afterwards.                                          *)
(***************************************************************************)
C5_NeverTrackedAgain ==
    [][InView =>
         \A p \in PatternIds :
            p \notin Tracked(patterns) =>
                /\ p \notin Tracked(patterns')
                /\ p \notin Range(tracked_indices') \ Range(tracked_indices)
                /\ IsExtractOk => nuclei_list'[Len(nuclei_list')] # p]_vars

\* a frame's batch is ready for the counter although a pattern had left tracked
\* before the frame was entered
C5_Witness ==
    /\ pc = "extract"
    /\ k > Len(tracked_indices)
    /\ nuclei_list # <<>>
    /\ \E p \in PatternIds : p \notin Tracked(pre)

(***************************************************************************)
(* C6: with no extraction or counting failure the result mapping of a view *)
(* holds, for each pattern, the ascending frames whose count was wanted    *)
(* with no earlier frame counted 0 or above wanted; patterns with no such  *)
(* frame are absent.                                                       *)
(***************************************************************************)
ExpectedResults ==
    [p \in {q \in DOMAIN expect : expect[q] # <<>>} |-> expect[p]]

C6_ResultAsClaimed ==
    (pc = "done" /\ clean) => results = ExpectedResults

\* C6 as amended: the same for a wanted count of at least 1
C6_ResultForPositiveWanted ==
    (pc = "done" /\ clean /\ wanted >= 1) => results = ExpectedResults

\* pattern 0 counted 2, 2, 0 and pattern 1 never counted 2, with wanted = 2
C6_Witness ==
    /\ pc = "done"
    /\ clean
    /\ wanted = 2
    /\ n_patterns = 2
    /\ patterns.dropped_zero = <<0>>
    /\ DOMAIN results = {0}
    /\ results[0] = <<0, 1>>

(***************************************************************************)
(* C7: if the batch counting call fails for a frame, the tracking state    *)
(* after the frame is identical to the state before the frame, and         *)
(* processing continues with the next frame index.                         *)
(***************************************************************************)
C7_StateAsBeforeFrame ==
    (FrameReturned /\ outcome = "count_failed") =>
        /\ patterns = pre
        /\ frame_idx = frame_nuclei + 1

\* C7 as amended: dropped_zero, dropped_many and every saved list are as before the
\* frame, tracked is as before the frame without the patterns whose extraction
\* failed in the frame, and processing continues with the next frame index
C7_OnlyFailedExtractionsLeave ==
    (FrameReturned /\ outcome = "count_failed") =>
        /\ patterns.dropped_zero = pre.dropped_zero
        /\ patterns.dropped_many = pre.dropped_many
        /\ patterns.saved = pre.saved
        /\ patterns.tracked = SelectSeq(pre.tracked, LAMBDA p : p \notin failed)
        /\ frame_idx = frame_nuclei + 1

\* counting failed in a frame that was entered with saved frames and in which one
\* extraction failed
C7_Witness ==
    /\ FrameReturned
    /\ outcome = "count_failed"
    /\ pc = "load"
    /\ Tracked(patterns) # Tracked(pre)
    /\ \E p \in PatternIds : pre.saved[p] # <<>>

(***************************************************************************)
(* C8: a region-extraction failure removes only that pattern from          *)
(* tracking; the failed pattern gets no frame index appended to its saved  *)
(* list in that frame or any later frame.                                  *)
(***************************************************************************)
C8_FailedPatternNeverSaved ==
    [][InView =>
         \A p \in failed : patterns'.saved[p] = patterns.saved[p]]_vars

(***************************************************************************)
(* C9: re-running process_views over a range whose views are all in the    *)
(* processed-views record analyzes no view, creates no new output file and *)
(* leaves every existing result file and the record unchanged.             *)
(***************************************************************************)
C9_RerunChangesNothing ==
    [][(skip_run /\ run # "stopped") =>
          /\ analyzed' = {}
          /\ folder' = folder
          /\ result_file' = result_file
          /\ tracking_file' = tracking_file]_vars

\* a run over a recorded range has gone through its whole loop and returned
C9_Witness ==
    /\ skip_run
    /\ run = "returned"
    /\ start_view = 0
    /\ end_view = NViews
    /\ \A v \in Views : result_file[v].st = "whole"

(***************************************************************************)
(* C10: if a run is interrupted by process termination at any point and    *)
(* process_views is re-invoked with the same range, no view whose result   *)
(* file the interrupted run wrote completely is analyzed again.            *)
(***************************************************************************)
C10_CompletedViewsNotReanalyzed ==
    analyzed \cap must_skip = {}

(***************************************************************************)
(* Vocabulary of the properties of process_views.                          *)
(***************************************************************************)
\* the views of the requested range
RequestedViews == start_view..(end_view - 1)

\* the views the record on disk lists, none if it cannot be read
Recorded == IF tracking_file.st = "whole" THEN tracking_file.data ELSE {}

\* the view analyzed last in this run
LastAnalyzed == CHOOSE v \in analyzed : \A w \in analyzed : w <= v

\* the running step begins the analysis of a view
BeginsAnalysis == analyzed' # analyzed /\ analyzed \subseteq analyzed'

(***************************************************************************)
(* C11: when analysis of a view fails (in analysis or while writing its    *)
(* result) the view is not added to the processed-views record, and every  *)
(* later unprocessed view of the range is still analyzed and, if it        *)
(* succeeds, written and recorded.                                         *)
(***************************************************************************)
C11_FailedViewLeftForRetry ==
    /\ \A v \in Views :
          view_failed[v] \in {"analysis", "detection", "result"} =>
              v \notin processed_views /\ v \notin Recorded
    /\ run = "returned" =>
          /\ RequestedViews \subseteq analyzed \cup processed_views
          /\ \A v \in analyzed :
                view_failed[v] = "none" =>
                    /\ result_file[v].st = "whole"
                    /\ v \in processed_views
                    /\ (\A w \in Views : view_failed[w] # "record") => v \in Recorded

\* a run over all views has returned: the analysis of one view failed, the write of
\* the result of another failed, and a later view is written and recorded
C11_Witness ==
    /\ run = "returned"
    /\ \E v, w \in RequestedViews :
          /\ v < w
          /\ view_failed[v] \in {"analysis", "detection", "result"}
          /\ view_failed[w] = "none"
          /\ w \in analyzed
          /\ w \in Recorded
          /\ result_file[w].st = "whole"

C19_HandlesClosedAtEnd ==
    run \in {"returned", "raised"} => ~handles_open

(***************************************************************************)
(* C20: constructing the Pattern Extractor fails unless the pattern source *)
(* reports exactly one channel and exactly one frame, the cell source      *)
(* reports at least two channels (exactly two in the strict variant) and   *)
(* both report the same view count; on a failed construction every handle  *)
(* that was opened is closed, and n_views / n_frames are taken from the    *)
(* cell source on success.                                                 *)
(***************************************************************************)
CellChannelsAccepted ==
    IF variant = "A" THEN cells_sizes.c = 2 ELSE cells_sizes.c >= 2

NoReaderOpen == patterns_reader # "open" /\ cells_reader # "open"

C20_ValidatedAsClaimed ==
    /\ ctor = "ready" =>
          /\ patterns_sizes.c = 1
          /\ patterns_sizes.t = 1
          /\ CellChannelsAccepted
          /\ patterns_sizes.v = cells_sizes.v
          /\ n_views = cells_sizes.v
          /\ n_frames = cells_sizes.t
    /\ ctor = "failed" => NoReaderOpen

\* C20 as amended: the pattern source reports exactly one channel in variant A and
\* no channel (a count of 0) in variant B
C20_ValidatedPerVariant ==
    /\ ctor = "ready" =>
          /\ patterns_sizes.c = (IF variant = "A" THEN 1 ELSE 0)
          /\ patterns_sizes.t = 1
          /\ CellChannelsAccepted
          /\ patterns_sizes.v = cells_sizes.v
          /\ n_views = cells_sizes.v
          /\ n_frames = cells_sizes.t
    /\ ctor = "failed" => NoReaderOpen

\* a construction failed in the validation of two opened files whose view counts
\* differ, and both readers were closed
C20_Witness ==
    /\ ctor = "failed"
    /\ validate_files(variant, patterns_sizes, cells_sizes) = "views"
    /\ patterns_reader = "closed"
    /\ cells_reader = "closed"

(***************************************************************************)
(* C14: for every pattern index p and sequence number s produced by the    *)
(* Segment Refiner the composite segment id decodes by integer arithmetic  *)
(* (id // 1000, id % 1000) to exactly (p, s), distinct (p, s) pairs get    *)
(* distinct ids, and ids are ordered as the pairs (p, s) are ordered       *)
(* lexicographically.                                                      *)
(***************************************************************************)
LexLess(p, s, q, t) == p < q \/ (p = q /\ s < t)

C14_IdDecodesAndOrders ==
    seq_i >= 0 =>
        /\ original_pattern(new_pattern_idx) = pattern_idx
        /\ sequence_num(new_pattern_idx) = seq_i
        /\ \A q \in 0..MaxIdPattern, t \in {0, seq_i} :
              /\ <<q, t>> # <<pattern_idx, seq_i>> => SegmentId(q, t) # new_pattern_idx
              /\ LexLess(q, t, pattern_idx, seq_i) <=> SegmentId(q, t) < new_pattern_idx

(***************************************************************************)
(* C31: a tracked pattern observed with zero nuclei is moved to            *)
(* dropped_zero and gets no saved frame for that observation, for every    *)
(* configured wanted count, 0 included.                                    *)
(***************************************************************************)
ZeroMovesToDroppedZero ==
    LET p == tracked_indices[k]
    IN  /\ p \notin Tracked(patterns')
        /\ p \in Range(patterns'.dropped_zero)
        /\ p \notin Range(patterns'.dropped_many)
        /\ patterns'.saved = patterns.saved

IsZeroUpdate ==
    /\ IsUpdateStep
    /\ counts[k] = 0
    /\ tracked_indices[k] \in Tracked(patterns)

C31_ZeroDropsForEveryWanted ==
    [][IsZeroUpdate => ZeroMovesToDroppedZero]_vars

\* C31 as amended: the same for every wanted count of at least 1, whichever
\* region the zero count paired with the pattern came from
C31_ZeroDropsForPositiveWanted ==
    [][(IsZeroUpdate /\ wanted >= 1) => ZeroMovesToDroppedZero]_vars

\* with wanted = 1 both patterns of a view were counted zero: pattern 0 in frame 0,
\* pattern 1 in frame 1 after its one nucleus of frame 0
C31_Witness ==
    /\ wanted = 1
    /\ clean
    /\ patterns.dropped_zero = <<0, 1>>
    /\ patterns.saved = (0 :> <<>> @@ 1 :> <<0>>)

(***************************************************************************)
(* C32: during a view's processing each pattern's saved list changes only  *)
(* by appending the index of the frame being processed, at most once per   *)
(* frame: it never shrinks or is rewritten, and it is strictly increasing  *)
(* at every point.                                                         *)
(***************************************************************************)
StrictlyIncreasing(s) == \A i, j \in DOMAIN s : i < j => s[i] < s[j]

AllIncreasing(P) == \A p \in DOMAIN P.saved : StrictlyIncreasing(P.saved[p])

C32_SavedOnlyAppended ==
    [][InView =>
          (/\ DOMAIN patterns'.saved = DOMAIN patterns.saved
           /\ \A p \in DOMAIN patterns.saved :
                 \/ patterns'.saved[p] = patterns.saved[p]
                 \/ /\ patterns'.saved[p] = Append(patterns.saved[p], frame_idx)
                    /\ frame_idx \notin Range(patterns.saved[p])
           /\ AllIncreasing(patterns)
           /\ AllIncreasing(patterns'))]_vars

\* the update loop has just appended the current frame to a list that held
\* an earlier frame
C32_Witness ==
    /\ pc = "update"
    /\ k > 1
    /\ frame_idx > 0
    /\ LET p == tracked_indices[k - 1]
       IN  /\ pre.saved[p] # <<>>
           /\ patterns.saved[p] = Append(pre.saved[p], frame_idx)

(***************************************************************************)
(* C33: at every point of a run, interruption points included, every view  *)
(* index contained in the on-disk processed-views record has a completely  *)
(* written result file time_series_<view>.json on disk.                    *)
(***************************************************************************)
C33_RecordedViewsHaveResults ==
    \A v \in ReadTracking(tracking_file) : result_file[v].st = "whole"

\* a process was terminated while it wrote the result of a view, and the
\* record on disk lists another view
C33_Witness ==
    /\ run = "stopped"
    /\ ReadTracking(tracking_file) # {}
    /\ \E v \in Views : result_file[v].st = "partial"

(***************************************************************************)
(* C34: with gap tolerance 6 and head/tail margin 3 the padded segments of *)
(* one pattern are pairwise disjoint and keep the order of their unpadded  *)
(* segments: the padded end of a segment is strictly less than the padded  *)
(* start of the next segment of the same pattern.                          *)
(***************************************************************************)
\* the padded segment stored for sequence number g (from 0) of pattern p
PaddedOf(p, g) == DictGet(padded, SegmentId(p, g))

C34_PaddedSegmentsDisjoint ==
    \A x \in 1..Len(sequences) :
        LET p == sequences[x][1]
            many == Len(sequences[x][2])
        IN  /\ \A g \in 0..(many - 1) : SegmentId(p, g) \in DictKeys(padded)
            /\ \A g \in 0..(many - 2) : PaddedOf(p, g)[2] < PaddedOf(p, g + 1)[1]
            /\ \A g, h \in 0..(many - 1) :
                  g < h => \A f \in PaddedOf(p, g)[1]..PaddedOf(p, g)[2] :
                              f \notin PaddedOf(p, h)[1]..PaddedOf(p, h)[2]

\* a pattern split at a gap of 7 frames: the padded segments are adjacent, the
\* second starts one frame after the end of the first
C34_Witness ==
    /\ ex = "segment"
    /\ \E x \in 1..Len(sequences) :
          /\ Len(sequences[x][2]) = 2
          /\ sequences[x][2][2][1] - sequences[x][2][1][2] = 7
          /\ PaddedOf(sequences[x][1], 1)[1] = PaddedOf(sequences[x][1], 0)[2] + 1

(***************************************************************************)
(* C35: variant A never rejects every contour: of a non-empty contour set  *)
(* at least one contour survives the 2-standard-deviation filter, so a     *)
(* successful process_patterns leaves n_patterns >= 1, and with 5 or fewer *)
(* contours none is rejected.                                              *)
(***************************************************************************)
C35_SomeSurviveFewAllSurvive ==
    contour_data.st = "returned" =>
        /\ Len(contours) >= 1
        /\ Len(contour_data.data) >= 1
        /\ Len(contours) <= 5 => Len(contour_data.data) = Len(contours)

(***************************************************************************)
(* C36: variant B performs at most max_iterations (10) stripping passes    *)
(* and stops at the first pass at which the coefficient of variation of    *)
(* the surviving areas is below the threshold (0.1) or the survivor set    *)
(* has become empty; each pass keeps exactly the survivors whose area lies *)
(* in [min_ratio * mean, max_ratio * mean] of the current survivors' mean, *)
(* so the survivor set never grows and is always a subset of the input.    *)
(***************************************************************************)
\* the areas of the survivors have a positive mean and std / mean < 0.1
CvBelowTenth ==
    LET many == Len(current_contours)
        sum == SumSeq([i \in 1..many |-> contours[current_contours[i]].area])
        squares == SumSeq([i \in 1..many |-> contours[current_contours[i]].area
                                              * contours[current_contours[i]].area])
    IN  sum > 0 /\ 100 * (many * squares - sum * sum) < sum * sum

\* the area of contour i is in [0.5 * mean, 1.5 * mean] of the survivors
WithinHalfOfMean(i) ==
    LET many == Len(current_contours)
        sum == SumSeq([j \in 1..many |-> contours[current_contours[j]].area])
    IN  sum <= 2 * many * contours[i].area /\ 2 * many * contours[i].area <= 3 * sum

C36_StrippingPasses ==
    [][refine_pc = "loop" =>
          (/\ iteration <= 10
           /\ iteration' <= 10
           /\ current_contours # <<>>
           /\ Range(current_contours) \subseteq 1..Len(contours)
           /\ Range(current_contours') \subseteq Range(current_contours)
           /\ Len(current_contours') <= Len(current_contours)
           /\ contours' = contours
           /\ IF CvBelowTenth \/ iteration = 10
              THEN /\ refine_pc' = "edges"
                   /\ current_contours' = current_contours
                   /\ iteration' = iteration
              ELSE /\ iteration' = iteration + 1
                   /\ current_contours' = SelectSeq(current_contours, WithinHalfOfMean)
                   /\ refine_pc' = (IF current_contours' = <<>> THEN "edges" ELSE "loop"))]_vars

\* of four contours the first pass stripped one and the second another; the
\* third found the coefficient of variation of the two left below the threshold
C36_Witness ==
    /\ refine_pc = "edges"
    /\ iteration = 2
    /\ Len(contours) = 4
    /\ Len(current_contours) = 2
    /\ CvBelowTenth

(***************************************************************************)
(* C37: every pattern returned by variant B has a bounding box (x, y, w,   *)
(* h) with x >= edge_tolerance, y >= edge_tolerance, x + w <= image_width  *)
(* - edge_tolerance and y + h <= image_height - edge_tolerance, and the    *)
(* returned patterns are ordered ascending by (center row, center column). *)
(***************************************************************************)
\* (center row, center column) of a is not behind that of b
NotBehind(a, b) ==
    LET row_a == a.y + a.h \div 2
        row_b == b.y + b.h \div 2
        col_a == a.x + a.w \div 2
        col_b == b.x + b.w \div 2
    IN  row_a < row_b \/ (row_a = row_b /\ col_a <= col_b)

C37_InsideEdgesInReadingOrder ==
    (refine_pc = "done" /\ contour_data.st = "returned") =>
        LET out == contour_data.data IN
        /\ \A p \in 1..Len(out) :
              LET c == contours[out[p]]
              IN  /\ c.x >= edge_tolerance
                  /\ c.y >= edge_tolerance
                  /\ c.x + c.w <= ImageWidth - edge_tolerance
                  /\ c.y + c.h <= ImageHeight - edge_tolerance
        /\ \A p, q \in 1..Len(out) : p < q => NotBehind(contours[out[p]], contours[out[q]])

\* four contours survived the passes: the one left of the edge tolerance was
\* skipped and the three others were returned in the reverse of their detection
C37_Witness ==
    /\ refine_pc = "done"
    /\ Len(current_contours) = 4
    /\ contour_data = [st |-> "returned", data |-> <<3, 2, 1>>]

====
